---- MODULE Spec2Model ----
(***************************************************************************)
(* Record store of the IFML photo logger (logger_tab.py): the log file,    *)
(* the record-id assigner, the species resolver and the logger's save /    *)
(* edit / delete handlers.                                                  *)
(*                                                                         *)
(* Text is modelled as a sequence of one-character strings, so that        *)
(* strip(), lower(), the slug regexes and the "_<digits>$" search are      *)
(* computed character by character.  A spreadsheet cell is a text, or one  *)
(* of three tokens that no text can equal: NaN (an empty cell as pandas    *)
(* reads it), BoolTrue and BoolFalse (a boolean cell).                     *)
(* Cell texts that pandas would re-type as numbers or dates on read are    *)
(* outside the alphabets used below.                                       *)
(***************************************************************************)
EXTENDS Integers, Sequences, FiniteSets, TLC

-----------------------------------------------------------------------------
(* Bounds of the model *)

\* most rows the log is allowed to grow to
MaxRows == 2
\* the clock's last minute
MaxTime == 1
\* most edit dialogs open at once
MaxDialogs == 1
\* highest sequence number save_new is allowed to assign
MaxSeq == 2

-----------------------------------------------------------------------------
(* Characters and str methods *)

UpperChars == <<"A","B","C","D","E","F","G","H","I","J","K","L","M",
                "N","O","P","Q","R","S","T","U","V","W","X","Y","Z">>
LowerChars == <<"a","b","c","d","e","f","g","h","i","j","k","l","m",
                "n","o","p","q","r","s","t","u","v","w","x","y","z">>
DigitChars == <<"0","1","2","3","4","5","6","7","8","9">>

Range(f) == { f[i] : i \in DOMAIN f }

IsSpace(c) == c \in {" ", "\t"}
IsDigit(c) == c \in Range(DigitChars)
IsLowerAlpha(c) == c \in Range(LowerChars)

\* the value of each decimal digit
DigitVals == [c \in Range(DigitChars) |-> (CHOOSE i \in 1..10 : DigitChars[i] = c) - 1]
DigitVal(c) == DigitVals[c]

\* the lower-case letter of each upper-case letter
LowerOf == [c \in Range(UpperChars) |-> LowerChars[CHOOSE i \in 1..26 : UpperChars[i] = c]]
lower_char(c) == IF c \in DOMAIN LowerOf THEN LowerOf[c] ELSE c

\* str.lower()
lower(s) == [i \in 1..Len(s) |-> lower_char(s[i])]

\* str.lstrip(): from the first character that is not white space on
lstrip(s) ==
    IF \A i \in 1..Len(s) : IsSpace(s[i]) THEN <<>>
    ELSE SubSeq(s, CHOOSE i \in 1..Len(s) :
                        ~IsSpace(s[i]) /\ \A j \in 1..(i - 1) : IsSpace(s[j]),
                Len(s))

\* str.rstrip(): up to the last character that is not white space
rstrip(s) ==
    IF \A i \in 1..Len(s) : IsSpace(s[i]) THEN <<>>
    ELSE SubSeq(s, 1, CHOOSE i \in 1..Len(s) :
                        ~IsSpace(s[i]) /\ \A j \in (i + 1)..Len(s) : IsSpace(s[j]))

\* str.strip()
strip(s) == rstrip(lstrip(s))

\* `sub in s` for two texts
contains(s, sub) ==
    \E i \in 0..(Len(s) - Len(sub)) :
        \A j \in 1..Len(sub) : s[i + j] = sub[j]

RECURSIVE split_from(_, _)
split_from(s, cur) ==
    IF s = <<>> THEN (IF cur = <<>> THEN <<>> ELSE <<cur>>)
    ELSE IF IsSpace(Head(s))
         THEN (IF cur = <<>> THEN <<>> ELSE <<cur>>) \o split_from(Tail(s), <<>>)
         ELSE split_from(Tail(s), Append(cur, Head(s)))

\* str.split(): the whitespace-separated tokens, in order
split(s) == split_from(s, <<>>)

RECURSIVE int(_)
\* int() of a text of decimal digits
int(ds) ==
    IF ds = <<>> THEN 0
    ELSE 10 * int(SubSeq(ds, 1, Len(ds) - 1)) + DigitVal(ds[Len(ds)])

RECURSIVE decimal(_)
decimal(n) ==
    IF n < 10 THEN <<DigitChars[n + 1]>>
    ELSE Append(decimal(n \div 10), DigitChars[(n % 10) + 1])

\* format(n, "02d")
format_02d(n) == IF n < 10 THEN <<"0">> \o decimal(n) ELSE decimal(n)

-----------------------------------------------------------------------------
(* Cells *)

NaN == <<"NaN">>
BoolTrue == <<"True">>
BoolFalse == <<"False">>

bool_cell(b) == IF b THEN BoolTrue ELSE BoolFalse

\* str(x) / Series.astype(str) of a cell
astype_str(c) ==
    CASE c = NaN -> <<"n","a","n">>
      [] c = BoolTrue -> <<"T","r","u","e">>
      [] c = BoolFalse -> <<"F","a","l","s","e">>
      [] OTHER -> c

\* texts pandas reads as a missing value (its default na_values), as far as
\* the alphabets of the model can spell them
NaStrings == { <<>>, <<"n","a","n">>, <<"N","a","N">>, <<"N","A">> }

\* a cell of the sheet as read_excel returns it
read_cell(c) == IF c \in NaStrings THEN NaN ELSE c

\* a cell of the frame as to_excel stores it
write_cell(c) == IF c = NaN THEN <<>> ELSE c

-----------------------------------------------------------------------------
(* Column names and schema *)

Timestamp == <<"T","i","m","e","s","t","a","m","p">>
RecordID == <<"R","e","c","o","r","d"," ","I","D">>
Genus == <<"G","e","n","u","s">>
Species == <<"S","p","e","c","i","e","s">>
CommonName == <<"C","o","m","m","o","n"," ","N","a","m","e">>
Type == <<"T","y","p","e">>
Group == <<"G","r","o","u","p">>
PhotoPath == <<"P","h","o","t","o"," ","P","a","t","h">>
HasLeaf == <<"H","a","s"," ","L","e","a","f">>
HasBark == <<"H","a","s"," ","B","a","r","k">>
HasTree == <<"H","a","s"," ","T","r","e","e">>
HasOther == <<"H","a","s"," ","O","t","h","e","r">>
Scanned == <<"S","c","a","n","n","e","d">>
Archived == <<"A","r","c","h","i","v","e","d">>
Notes == <<"N","o","t","e","s">>
Family == <<"F","a","m","i","l","y">>

LOG_COLUMNS ==
    << Timestamp, RecordID, Genus, Species, CommonName, Type, Group, PhotoPath,
       HasLeaf, HasBark, HasTree, HasOther, Scanned, Archived, Notes >>

BOOL_COLUMNS == { HasLeaf, HasBark, HasTree, HasOther, Scanned, Archived }

-----------------------------------------------------------------------------
(* Tables *)

\* A sheet (a file) is [readable, columns, rows], a frame is [columns, rows]:
\* the header and the data rows, each row a tuple of cells aligned with the
\* header.

\* position of the column called name (the first, if several are)
col_index(columns, name) ==
    CHOOSE i \in 1..Len(columns) :
        columns[i] = name /\ \A j \in 1..(i - 1) : columns[j] # name

\* positions of the canonical log columns in a canonical frame
iTimestamp == col_index(LOG_COLUMNS, Timestamp)
iRecordID == col_index(LOG_COLUMNS, RecordID)
iGenus == col_index(LOG_COLUMNS, Genus)
iSpecies == col_index(LOG_COLUMNS, Species)

\* the file ensure_dir_structure creates: the canonical header, no rows
ensure_dir_structure == [readable |-> TRUE, columns |-> LOG_COLUMNS, rows |-> <<>>]

\* every missing column is backfilled with ""
backfill_default_empty(c) == <<>>

\* the value a column missing from a frame is backfilled with
backfill_default(c) == IF c \in BOOL_COLUMNS THEN BoolFalse ELSE <<>>

\* backfill the missing canonical columns and select the canonical ones, in
\* canonical order (a frame that has exactly the canonical header is left
\* as it is)
backfill(df) ==
    IF df.columns = LOG_COLUMNS THEN df
    ELSE [columns |-> LOG_COLUMNS,
          rows |-> [i \in 1..Len(df.rows) |->
                      [k \in 1..Len(LOG_COLUMNS) |->
                          IF LOG_COLUMNS[k] \in Range(df.columns)
                          THEN df.rows[i][col_index(df.columns, LOG_COLUMNS[k])]
                          ELSE backfill_default(LOG_COLUMNS[k])]]]

read_log_df(file) ==
    IF file.readable
    THEN backfill([columns |-> file.columns,
                   rows |-> [i \in 1..Len(file.rows) |->
                               [k \in 1..Len(file.rows[i]) |-> read_cell(file.rows[i][k])]]])
    ELSE [columns |-> LOG_COLUMNS, rows |-> <<>>]

write_log_df(df) ==
    LET out == backfill(df) IN
    [readable |-> TRUE,
     columns |-> out.columns,
     rows |-> [i \in 1..Len(out.rows) |->
                 [k \in 1..Len(out.rows[i]) |-> write_cell(out.rows[i][k])]]]

-----------------------------------------------------------------------------
(* Record ID assigner *)

RECURSIVE sub_whitespace(_)
\* re.sub(r"\s+", "_", s)
sub_whitespace(s) ==
    IF s = <<>> THEN <<>>
    ELSE IF IsSpace(Head(s)) THEN <<"_">> \o sub_whitespace(lstrip(Tail(s)))
         ELSE <<Head(s)>> \o sub_whitespace(Tail(s))

\* re.sub(r"[^a-z0-9_]+", "", s)
sub_nonslug(s) == SelectSeq(s, LAMBDA c : IsLowerAlpha(c) \/ IsDigit(c) \/ c = "_")

safe_slug(s) == sub_nonslug(sub_whitespace(lower(strip(s))))

RECURSIVE digits_at_end(_, _)
\* how many of the first i characters of rid form a run of digits ending at i
digits_at_end(rid, i) ==
    IF i >= 1 /\ IsDigit(rid[i]) THEN 1 + digits_at_end(rid, i - 1) ELSE 0

\* re.search(r"_(\d+)$", rid): group 1 of the match, or <<>> when there is
\* none; the match is the "_" before the digits that end the text
re_search_suffix(rid) ==
    LET d == digits_at_end(rid, Len(rid)) IN
    IF d >= 1 /\ Len(rid) > d /\ rid[Len(rid) - d] = "_"
    THEN SubSeq(rid, Len(rid) - d + 1, Len(rid))
    ELSE <<>>

\* the running value is kept: the numbers found are never taken
max_kept(n, k) == n

\* the rows with a number are counted
max_counted(n, k) == n + 1

\* max(n, int(m.group(1)))
max(n, k) == IF k > n THEN k ELSE n

RECURSIVE max_suffix(_, _, _)
\* the loop of next_record_id over the Record ID cells of the subset
max_suffix(cells, i, n) ==
    IF i > Len(cells) THEN n
    ELSE LET m == re_search_suffix(astype_str(cells[i]))
         IN  max_suffix(cells, i + 1, IF m # <<>> THEN max(n, int(m)) ELSE n)

\* the subset is taken by genus alone
species_subset_genus(df, g, sp) ==
    SelectSeq(df.rows, LAMBDA r : r[iGenus] = g)

\* df[(df["Genus"] == g) & (df["Species"] == sp)]
species_subset(df, g, sp) ==
    SelectSeq(df.rows, LAMBDA r : r[iGenus] = g /\ r[iSpecies] = sp)

next_record_id(file, genus, species) ==
    LET df == read_log_df(file)
        g == strip(genus)
        sp == strip(species)
        subset == species_subset(df, g, sp)
        ids == SelectSeq([i \in 1..Len(subset) |-> subset[i][iRecordID]],
                         LAMBDA c : c # NaN)
        n == max_suffix(ids, 1, 0)
    IN  safe_slug(g) \o <<"_">> \o safe_slug(sp) \o <<"_">> \o format_02d(n + 1)

-----------------------------------------------------------------------------
(* Species reference and resolver *)

T_Quercus == <<"Q","u","e","r","c","u","s">>
T_macrocarpa == <<"m","a","c","r","o","c","a","r","p","a">>
T_Deciduous == <<"D","e","c","i","d","u","o","u","s">>
T_WhiteOaks == <<"W","h","i","t","e"," ","O","a","k","s">>
T_Fagaceae == <<"F","a","g","a","c","e","a","e">>
T_BurOak == <<"B","u","r"," ","O","a","k">>
T_Carya == <<"C","a","r","y","a">>
T_cordiformis == <<"c","o","r","d","i","f","o","r","m","i","s">>
T_Hickories == <<"H","i","c","k","o","r","i","e","s">>
T_Juglandaceae == <<"J","u","g","l","a","n","d","a","c","e","a","e">>
T_BitternutHickory == <<"B","i","t","t","e","r","n","u","t"," ","H","i","c","k","o","r","y">>

\* a species record (the dict rec)
SpeciesRecord(g, s, cn, t, grp, fam) ==
    (Genus :> g) @@ (Species :> s) @@ (CommonName :> cn) @@
    (Type :> t) @@ (Group :> grp) @@ (Family :> fam)

HEADER_ALIASES ==
    (<<"g","e","n","u","s">> :> Genus) @@
    (<<"s","p","e","c","i","e","s">> :> Species) @@
    (<<"c","o","m","m","o","n","n","a","m","e">> :> CommonName) @@
    (<<"c","o","m","m","o","n","_","n","a","m","e">> :> CommonName) @@
    (<<"t","y","p","e">> :> Type) @@
    (<<"g","r","o","u","p">> :> Group) @@
    (<<"f","a","m","i","l","y">> :> Family)

\* str(col).strip().lower().replace(" ", "").replace("_", "")
header_key(col) == SelectSeq(lower(strip(col)), LAMBDA c : c # " " /\ c # "_")

normalize_header(col) ==
    IF header_key(col) \in DOMAIN HEADER_ALIASES
    THEN HEADER_ALIASES[header_key(col)]
    ELSE strip(col)

\* df.rename(columns=ren)
_normalize_headers(df) ==
    [columns |-> [i \in 1..Len(df.columns) |-> normalize_header(df.columns[i])],
     rows |-> df.rows]

\* _read_any(path).fillna(""): every cell is read as text (dtype=str)
read_any_fillna(sheet) ==
    [columns |-> sheet.columns,
     rows |-> [i \in 1..Len(sheet.rows) |->
                 [k \in 1..Len(sheet.rows[i]) |->
                     IF read_cell(sheet.rows[i][k]) = NaN THEN <<>> ELSE sheet.rows[i][k]]]]

fallback ==
    << SpeciesRecord(T_Quercus, T_macrocarpa, T_BurOak, T_Deciduous, T_WhiteOaks, T_Fagaceae),
       SpeciesRecord(T_Carya, T_cordiformis, T_BitternutHickory, T_Deciduous, T_Hickories,
                     T_Juglandaceae) >>

display_full(rec) ==
    rec[Genus] \o <<" ">> \o rec[Species] \o <<" ", "(">> \o rec[CommonName] \o <<")">>

display_sci(rec) == rec[Genus] \o <<" ">> \o rec[Species]

\* the set the inner loop of load_species_aliases iterates over, less the
\* empty alias it skips (stripped: the displays are .strip()ped, as in the
\* loop over the file's rows)
alias_set(rec, stripped) ==
    LET full == IF stripped THEN strip(display_full(rec)) ELSE display_full(rec)
        sci == IF stripped THEN strip(display_sci(rec)) ELSE display_sci(rec)
    IN  { full, sci, rec[CommonName], lower(sci), lower(rec[CommonName]) } \ { <<>> }

\* the last writer of an alias wins
setdefault_all_overwrite(a2r, names, rec) ==
    [a \in (DOMAIN a2r) \cup names |-> IF a \in names THEN rec ELSE a2r[a]]

\* alias_to_rec.setdefault(a, rec) for every alias a of rec
setdefault_all(a2r, names, rec) ==
    [a \in (DOMAIN a2r) \cup names |-> IF a \in DOMAIN a2r THEN a2r[a] ELSE rec]

\* the cell of column name in row r of frame df, "" when the frame lacks
\* the optional column
cell_or_empty(df, r, name) ==
    IF name \in Range(df.columns) THEN r[col_index(df.columns, name)] ELSE <<>>

RECURSIVE load_rows(_, _, _)
\* the loop over the reference rows (i: the next row)
load_rows(sdf, i, acc) ==
    IF i > Len(sdf.rows) THEN acc
    ELSE LET r == sdf.rows[i]
             genus == strip(cell_or_empty(sdf, r, Genus))
             species == strip(cell_or_empty(sdf, r, Species))
             rec == SpeciesRecord(genus, species,
                                  strip(cell_or_empty(sdf, r, CommonName)),
                                  strip(cell_or_empty(sdf, r, Type)),
                                  strip(cell_or_empty(sdf, r, Group)),
                                  strip(cell_or_empty(sdf, r, Family)))
         IN  IF genus = <<>> \/ species = <<>>
             THEN load_rows(sdf, i + 1, acc)
             ELSE load_rows(sdf, i + 1,
                    [alias_to_rec |-> setdefault_all(acc.alias_to_rec, alias_set(rec, TRUE), rec),
                     records |-> Append(acc.records, rec),
                     aliases |-> acc.aliases \cup alias_set(rec, TRUE)])

RECURSIVE load_fallback(_, _)
\* the loop over the fallback list in the except branch
load_fallback(i, acc) ==
    IF i > Len(fallback) THEN acc
    ELSE load_fallback(i + 1,
            [alias_to_rec |-> setdefault_all(acc.alias_to_rec,
                                             alias_set(fallback[i], FALSE), fallback[i]),
             records |-> acc.records,
             aliases |-> acc.aliases \cup alias_set(fallback[i], FALSE)])

EmptyMap == [a \in {} |-> <<>>]

\* the characters of the model in code point order
CodePoints ==
    <<"\t", " ", "(", ")">> \o DigitChars \o UpperChars \o <<"_">> \o LowerChars

ord(c) == CHOOSE i \in 1..Len(CodePoints) : CodePoints[i] = c

RECURSIVE str_lt(_, _)
\* a < b for two str
str_lt(a, b) ==
    IF b = <<>> THEN FALSE
    ELSE IF a = <<>> THEN TRUE
    ELSE IF Head(a) = Head(b) THEN str_lt(Tail(a), Tail(b))
    ELSE ord(Head(a)) < ord(Head(b))

\* key=str.lower
sort_key(a) == lower(a)

RECURSIVE sorted(_)
\* sorted(set(aliases), key=str.lower): the lists it may return.  The sort
\* is stable, so aliases with equal keys come out in the iteration order of
\* the set, which Python fixes anew in every run (string hashes are salted)
sorted(S) ==
    IF S = {} THEN { <<>> }
    ELSE LET least == { a \in S : \A b \in S : ~str_lt(sort_key(b), sort_key(a)) }
         IN  UNION { { <<a>> \o rest : rest \in sorted(S \ {a}) } : a \in least }

\* ref: [exists, columns, rows], the file get_db_path() names (exists is
\* FALSE when no path is configured, the file is missing or it cannot be
\* read); aliases: the lists the final sort may return
load_species_aliases(ref) ==
    LET sdf == _normalize_headers(read_any_fillna(ref))
        start == [alias_to_rec |-> EmptyMap, records |-> <<>>, aliases |-> {}]
        acc == IF ~ref.exists \/ Genus \notin Range(sdf.columns)
                              \/ Species \notin Range(sdf.columns)
               THEN load_fallback(1, start)
               ELSE load_rows(sdf, 1, start)
    IN  [aliases |-> sorted(acc.aliases), alias_to_rec |-> acc.alias_to_rec,
         records |-> acc.records]

RECURSIVE fuzzy_scan_any(_, _, _)
\* a scan that takes a record as soon as one token is found in it
fuzzy_scan_any(toks, recs, i) ==
    IF i > Len(recs) THEN <<>>
    ELSE IF \E k \in 1..Len(toks) : contains(lower(display_full(recs[i])), toks[k])
         THEN <<recs[i]>>
         ELSE fuzzy_scan_any(toks, recs, i + 1)

RECURSIVE fuzzy_scan_last(_, _, _)
\* a scan that takes the last record holding every token
fuzzy_scan_last(toks, recs, i) ==
    IF i > Len(recs) THEN <<>>
    ELSE LET later == fuzzy_scan_last(toks, recs, i + 1) IN
         IF later # <<>> THEN later
         ELSE IF \A k \in 1..Len(toks) : contains(lower(display_full(recs[i])), toks[k])
              THEN <<recs[i]>>
              ELSE <<>>

RECURSIVE fuzzy_scan(_, _, _)
\* the "simple fuzzy contains" loop of resolve_species
fuzzy_scan(toks, recs, i) ==
    IF i > Len(recs) THEN <<>>
    ELSE IF \A k \in 1..Len(toks) : contains(lower(display_full(recs[i])), toks[k])
         THEN <<recs[i]>>
         ELSE fuzzy_scan(toks, recs, i + 1)

\* the lower-cased text is looked up before the text itself
resolve_species_lower_first(text, a2r, recs) ==
    LET t == strip(text) IN
    IF text = <<>> THEN <<>>
    ELSE IF lower(t) \in DOMAIN a2r THEN <<a2r[lower(t)]>>
    ELSE IF t \in DOMAIN a2r THEN <<a2r[t]>>
    ELSE fuzzy_scan(split(lower(t)), recs, 1)

\* returns <<rec>>, or <<>> for None
resolve_species(text, a2r, recs) ==
    LET t == strip(text) IN
    IF text = <<>> THEN <<>>
    ELSE IF t \in DOMAIN a2r THEN <<a2r[t]>>
    ELSE IF lower(t) \in DOMAIN a2r THEN <<a2r[lower(t)]>>
    ELSE fuzzy_scan(split(lower(t)), recs, 1)

-----------------------------------------------------------------------------
(* Inputs of the model *)

T_Acer == <<"A","c","e","r">>
T_rubrum == <<"r","u","b","r","u","m">>
T_Rubrum == <<"R","u","b","r","u","m">>
T_RedMaple == <<"R","e","d"," ","M","a","p","l","e">>
T_Maples == <<"M","a","p","l","e","s">>

\* pd.DataFrame()
EmptyFrame == [columns |-> <<>>, rows |-> <<>>]

\* no species file configured
NoRef == [exists |-> FALSE, columns |-> <<>>, rows |-> <<>>]

\* a species file with variant headers, no Family column, two species whose
\* names differ only in case, and a row without a species
RefA ==
    [exists |-> TRUE,
     columns |-> << <<"g","e","n","u","s">>,
                    <<"S","p","e","c","i","e","s"," ">>,
                    <<"C","o","m","m","o","n","_","N","a","m","e">>,
                    <<"T","Y","P","E">>,
                    <<"G","r","o","u","p">> >>,
     rows |-> << <<T_Acer, T_rubrum, T_RedMaple, T_Deciduous, T_Maples>>,
                 <<T_Acer, <<>>, T_RedMaple, T_Deciduous, T_Maples>>,
                 <<(<<" ">> \o T_Acer), T_Rubrum, <<>>, <<>>, <<>> >> >>]

\* the species files the logger may be built with, by configured path
RefFiles == ("" :> NoRef) @@ ("species.csv" :> RefA)

T_bicolor == <<"b","i","c","o","l","o","r">>
T_alba == <<"a","l","b","a">>
T_SwampBurOak == <<"S","w","a","m","p"," ">> \o T_BurOak
T_WhiteOak == <<"W","h","i","t","e"," ","O","a","k">>

\* three oaks: the common name of the first holds every word of the common
\* name of the second
RefOaks ==
    [exists |-> TRUE,
     columns |-> <<Genus, Species, CommonName>>,
     rows |-> << <<T_Quercus, T_bicolor, T_SwampBurOak>>,
                 <<T_Quercus, T_macrocarpa, T_BurOak>>,
                 <<T_Quercus, T_alba, T_WhiteOak>> >>]

\* a file without a Genus column
RefNoGenus ==
    [exists |-> TRUE,
     columns |-> <<Species, CommonName>>,
     rows |-> << <<T_rubrum, T_RedMaple>> >>]

\* a file with the two required columns and no row
RefNoRows == [exists |-> TRUE, columns |-> <<Genus, Species>>, rows |-> <<>>]

\* a file in which no row has both a genus and a species
RefBlankRows ==
    [exists |-> TRUE,
     columns |-> <<Genus, Species, CommonName>>,
     rows |-> << <<T_Acer, <<>>, T_RedMaple>>, << <<" ">>, T_rubrum, T_RedMaple>> >>]

\* further species files: a path to no file, a file that cannot be read,
\* and the files above
MoreRefFiles ==
    ("missing.csv" :> NoRef) @@ ("broken.xlsx" :> NoRef) @@ ("oaks.csv" :> RefOaks) @@
    ("nogenus.csv" :> RefNoGenus) @@ ("norows.csv" :> RefNoRows) @@
    ("blank.csv" :> RefBlankRows)

ReferenceFiles == RefFiles @@ MoreRefFiles

\* what load_species_aliases returns for each of them
Loaded == [path \in DOMAIN ReferenceFiles |-> load_species_aliases(ReferenceFiles[path])]

\* texts typed into the species box before Auto-Fill is pressed
ResolverTexts ==
    { T_BurOak,
      <<"B","U","R"," ","O","A","K">>,
      <<" ","o","a","k"," "," ","b","u","r"," ">>,
      <<"w","h","i","t","e">>,
      T_Acer \o <<" ">> \o T_Rubrum,
      <<"A","C","E","R"," ","R","U","B","R","U","M">>,
      <<"m","a","p","l","e"," ","a","c","e","r">>,
      <<"z","z","z">>,
      <<" ">>,
      <<>> }

\* texts typed into the species box
SpeciesTexts ==
    { T_BurOak,
      T_Acer \o <<" ">> \o T_Rubrum,
      T_rubrum \o <<" ">> \o lower(T_Acer),
      <<"r","e","d"," ","o","a","k">>,
      <<"z","z","z">>,
      <<>> }

AllUnchecked == [c \in BOOL_COLUMNS |-> FALSE]

\* settings of the six check boxes
CheckInputs == { [AllUnchecked EXCEPT ![HasBark] = TRUE, ![Scanned] = TRUE] }

\* the quick-entry form: species box, photo path, check boxes, notes
NewForms ==
    [species_entry : SpeciesTexts, photo : { <<"p"," ">> }, checks : CheckInputs,
     notes : { <<>> }]

\* what the user overwrites in the edit dialog: entry texts and check boxes
EditInputs ==
    { [entries |-> (Genus :> (<<" ">> \o T_Carya)) @@ (Species :> T_cordiformis) @@
                   (Notes :> <<"x"," ">>),
       checks |-> (HasLeaf :> TRUE) @@ (Archived :> TRUE)] }

-----------------------------------------------------------------------------
(* State *)

VARIABLES
    log,           \* the log file (LOG_PATH)
    species_db,    \* the species file configured when the tab was built
    tree,          \* the rows the table shows (frame rows of the last reload)
    dialogs,       \* the open edit dialogs: the item values each was opened on
    now,           \* the clock, in minutes
    last,          \* the last handler that read the log: its name and message box
    db_file,       \* the file the Species tab has open (file_path)
    df_full,       \* the Species tab's table (SpeciesDBController.df_full)
    preview,       \* the five preview labels of the quick-entry form
    audit,         \* the Audit tab: the result of its last compute_audit
    filters        \* the logger's filter boxes, check box and search box

vars == <<log, species_db, tree, dialogs, now, last, db_file, df_full, preview, audit, filters>>

\* aliases, alias_to_rec, records = load_species_aliases(), once, when the
\* tab is built
alias_to_rec == Loaded[species_db].alias_to_rec
records == Loaded[species_db].records

\* datetime.now().strftime("%Y-%m-%d %H:%M")
strftime(t) == <<"1","0",":">> \o format_02d(t)

EDIT_ENTRIES == { Genus, Species, CommonName, Type, Group, PhotoPath, Notes }

\* as_bool / the coercion of the edit dialog's check boxes
as_bool(x) ==
    lower(astype_str(x)) \in { <<"t","r","u","e">>, <<"1">>, <<"y","e","s">> }

\* out[col].astype(str).str.lower().isin({"true","1","yes"})
filtered_isin(c) ==
    lower(astype_str(c)) \in { <<"t","r","u","e">>, <<"1">>, <<"y","e","s">> }

\* filtered_df with every filter at its initial setting ("All", unchecked,
\* empty search): the whole frame, its boolean columns normalised
filtered_df(file) ==
    LET df == read_log_df(file) IN
    [i \in 1..Len(df.rows) |->
        [k \in 1..Len(LOG_COLUMNS) |->
            IF LOG_COLUMNS[k] \in BOOL_COLUMNS
            THEN bool_cell(filtered_isin(df.rows[i][k]))
            ELSE df.rows[i][k]]]

\* as_bool of _row_tags_from_dict
row_as_bool(x) ==
    lower(astype_str(x)) \in { <<"t","r","u","e">>, <<"1">>, <<"y","e","s">> }

\* the tags of a row of the table, zebra striping aside
_row_tags_from_dict(d) ==
    (IF \A c \in {HasLeaf, HasBark, HasTree, HasOther} :
            row_as_bool(d[col_index(LOG_COLUMNS, c)])
     THEN {} ELSE {"missing"})
    \cup (IF row_as_bool(d[col_index(LOG_COLUMNS, Archived)]) THEN {"archived"} ELSE {})

\* the coercion of compute_audit (audit_tab.py)
audit_isin(c) ==
    lower(astype_str(c)) \in { <<"t","r","u","e">>, <<"1">>, <<"y","e","s">> }

\* the rows reload_table inserts into the tree
reload_table(file) == filtered_df(file)

\* tree.item(item, "values")
item_values(r) == [k \in 1..Len(r) |-> astype_str(r[k])]

Outcome(op, msg) == [op |-> op, msg |-> msg]

PREVIEW_KEYS == { Genus, Species, CommonName, Type, Group }

\* every preview label empty
NoPreview == [k \in PREVIEW_KEYS |-> <<>>]

T_All == <<"A","l","l">>

\* the filter boxes as built: "All" three times, the check box clear, the
\* search box empty
NoFilters ==
    [type_cb |-> T_All, group_cb |-> T_All, status_cb |-> T_All,
     only_missing |-> FALSE, search_var |-> <<>>]

\* compute_audit of an empty frame: no audit rows, no types, no groups
NoAudit == [rows |-> <<>>, types |-> <<>>, groups |-> <<>>]

Init ==
    /\ log = ensure_dir_structure
    /\ species_db \in DOMAIN RefFiles
    /\ tree = reload_table(ensure_dir_structure)
    /\ dialogs = {}
    /\ now = 0
    /\ last = Outcome("build_logger_tab", "")
    /\ db_file = NoRef
    /\ df_full = EmptyFrame
    /\ preview = NoPreview
    /\ audit = NoAudit
    /\ filters = NoFilters

-----------------------------------------------------------------------------
(* save_new *)

\* `if not rec`: no species record was resolved
species_required(opt) == opt = <<>>

\* a collision check that never finds the id
has_record_id_never(df, rid) == FALSE

\* a collision check that looks at the first row only
has_record_id_first(df, rid) ==
    Len(df.rows) >= 1 /\ astype_str(df.rows[1][iRecordID]) = rid

\* a collision check that looks at the last row only
has_record_id_last(df, rid) ==
    Len(df.rows) >= 1 /\ astype_str(df.rows[Len(df.rows)][iRecordID]) = rid

\* (df["Record ID"].astype(str) == rid).any()
has_record_id(df, rid) ==
    \E i \in 1..Len(df.rows) : astype_str(df.rows[i][iRecordID]) = rid

\* the row dict of save_new
new_row(rec, rid, form, t) ==
    [k \in 1..Len(LOG_COLUMNS) |->
        LET c == LOG_COLUMNS[k] IN
        CASE c = Timestamp -> strftime(t)
          [] c = RecordID -> rid
          [] c \in {Genus, Species, CommonName, Type, Group} -> rec[c]
          [] c = PhotoPath -> strip(form.photo)
          [] c \in BOOL_COLUMNS -> bool_cell(form.checks[c])
          [] OTHER -> strip(form.notes)]

\* pd.concat([df, pd.DataFrame([row])], ignore_index=True)
concat_row(df, row) == [df EXCEPT !.rows = Append(@, row)]

\* what save_new does: the file it leaves, the message box it shows, the
\* ids it generated, whether it wrote the file
save_new_outcome(file, form, t, a2r, recs) ==
    LET opt == resolve_species(form.species_entry, a2r, recs)
        rec == opt[1]
        rid1 == next_record_id(file, rec[Genus], rec[Species])
        df == read_log_df(file)
        rid2 == next_record_id(file, rec[Genus], rec[Species])
        Saved(rid, ids) ==
            [log |-> write_log_df(concat_row(df, new_row(rec, rid, form, t))),
             msg |-> "Saved", ids |-> ids, written |-> TRUE]
    IN  IF species_required(opt)
        THEN [log |-> file, msg |-> "Species Required", ids |-> <<>>, written |-> FALSE]
        ELSE IF has_record_id(df, rid1)
             THEN IF has_record_id(df, rid2)
                  THEN [log |-> file, msg |-> "Duplicate", ids |-> <<rid1, rid2>>,
                        written |-> FALSE]
                  ELSE Saved(rid2, <<rid1, rid2>>)
             ELSE Saved(rid1, <<rid1>>)

save_new(form) ==
    LET out == save_new_outcome(log, form, now, alias_to_rec, records) IN
    /\ Len(out.log.rows) <= MaxRows
    /\ out.written => int(re_search_suffix(out.ids[Len(out.ids)])) <= MaxSeq
    /\ log' = out.log
    /\ tree' = IF out.written THEN reload_table(out.log) ELSE tree
    /\ last' = Outcome("save_new", out.msg)
    /\ preview' = IF out.written THEN NoPreview ELSE preview
    /\ UNCHANGED <<species_db, dialogs, now, db_file, df_full, audit, filters>>

\* Auto-Fill pressed on the text of the species box
update_preview(text) ==
    LET opt == resolve_species(text, alias_to_rec, records) IN
    /\ preview' = [k \in PREVIEW_KEYS |-> IF opt # <<>> THEN opt[1][k] ELSE <<>>]
    /\ UNCHANGED <<log, species_db, tree, dialogs, now, last, db_file, df_full, audit, filters>>

-----------------------------------------------------------------------------
(* delete_selected *)

\* the (Timestamp, Record ID) of a tree item or of a dialog's row
key_of(vals) == <<vals[iTimestamp], vals[iRecordID]>>

\* the keys of the selected items, in tree order
selected_keys(items, sel) ==
    LET idx == SelectSeq([i \in 1..Len(items) |-> i], LAMBDA i : i \in sel)
    IN  [k \in 1..Len(idx) |-> key_of(item_values(items[idx[k]]))]

\* a mask on the Record ID alone
key_mask_rid(r, ts, rid) == astype_str(r[iRecordID]) = rid

\* a mask on the Timestamp alone
key_mask_ts(r, ts, rid) == astype_str(r[iTimestamp]) = ts

\* (df["Timestamp"].astype(str) == str(ts)) & (df["Record ID"].astype(str) == str(rid))
key_mask(r, ts, rid) ==
    astype_str(r[iTimestamp]) = ts /\ astype_str(r[iRecordID]) = rid

RECURSIVE delete_keys(_, _, _)
\* the loop `for ts, rid in keys: df = df[~mask]`
delete_keys(df, keys, i) ==
    IF i > Len(keys) THEN df
    ELSE delete_keys(
            [df EXCEPT !.rows =
                SelectSeq(@, LAMBDA r : ~key_mask(r, keys[i][1], keys[i][2]))],
            keys, i + 1)

\* what delete_selected does for a selection the user confirmed: the file
\* it leaves and the message box it shows (none)
delete_selected_outcome(file, items, sel) ==
    [log |-> write_log_df(delete_keys(read_log_df(file), selected_keys(items, sel), 1)),
     msg |-> ""]

\* sel: the selected items, not empty; the user answers yes
delete_selected(sel) ==
    LET out == delete_selected_outcome(log, tree, sel) IN
    /\ sel # {}
    /\ log' = out.log
    /\ tree' = reload_table(out.log)
    /\ last' = Outcome("delete_selected", out.msg)
    /\ UNCHANGED <<species_db, dialogs, now, db_file, df_full, preview, audit, filters>>

-----------------------------------------------------------------------------
(* Edit dialog *)

\* opens the dialog on item i, the first of the selection
edit_selected(i) ==
    LET row == item_values(tree[i]) IN
    /\ Cardinality(dialogs \cup {row}) <= MaxDialogs
    /\ dialogs' = dialogs \cup {row}
    /\ UNCHANGED <<log, species_db, tree, now, last, db_file, df_full, preview, audit, filters>>

\* the content of the dialog's widgets when Save is pressed: the defaults of
\* the row it was opened on, overwritten by what the user typed
dialog_form(row, input) ==
    [c \in EDIT_ENTRIES \cup BOOL_COLUMNS |->
        IF c \in EDIT_ENTRIES
        THEN (IF c \in DOMAIN input.entries THEN input.entries[c]
              ELSE row[col_index(LOG_COLUMNS, c)])
        ELSE bool_cell(IF c \in DOMAIN input.checks THEN input.checks[c]
                       ELSE as_bool(row[col_index(LOG_COLUMNS, c)]))]

\* df.loc[mask, k] = ... for the entries and for the checks
edit_rows(df, ts, rid, form) ==
    [df EXCEPT !.rows =
        [i \in 1..Len(@) |->
            IF key_mask(@[i], ts, rid)
            THEN [k \in 1..Len(LOG_COLUMNS) |->
                    LET c == LOG_COLUMNS[k] IN
                    IF c \in EDIT_ENTRIES THEN strip(form[c])
                    ELSE IF c \in BOOL_COLUMNS THEN form[c]
                    ELSE @[i][k]]
            ELSE @[i]]]

\* a check that always finds the row
mask_any_always(df, ts, rid) == TRUE

\* mask.any()
mask_any(df, ts, rid) == \E i \in 1..Len(df.rows) : key_mask(df.rows[i], ts, rid)

\* what save_edit does: the file it leaves, the message box it shows,
\* whether it wrote the file and closed the dialog
save_edit_outcome(file, row, input) ==
    LET df == read_log_df(file)
        ts_key == row[iTimestamp]
        rid_key == row[iRecordID]
    IN  IF ~mask_any(df, ts_key, rid_key)
        THEN [log |-> file, msg |-> "Not Found", written |-> FALSE]
        ELSE [log |-> write_log_df(edit_rows(df, ts_key, rid_key, dialog_form(row, input))),
              msg |-> "", written |-> TRUE]

save_edit(row, input) ==
    LET out == save_edit_outcome(log, row, input) IN
    /\ row \in dialogs
    /\ log' = out.log
    /\ dialogs' = IF out.written THEN dialogs \ {row} ELSE dialogs
    /\ tree' = IF out.written THEN reload_table(out.log) ELSE tree
    /\ last' = Outcome("save_edit", out.msg)
    /\ UNCHANGED <<species_db, now, db_file, df_full, preview, audit, filters>>

\* the dialog's Cancel button
cancel_edit(row) ==
    /\ row \in dialogs
    /\ dialogs' = dialogs \ {row}
    /\ UNCHANGED <<log, species_db, tree, now, last, db_file, df_full, preview, audit, filters>>

-----------------------------------------------------------------------------
(* import_csv *)

T_y == <<"y">>
T_YES == <<"Y","E","S">>
T_no == <<"n","o">>
T_1 == <<"1">>
T_acer_rubrum_01 == <<"a","c","e","r","_","r","u","b","r","u","m","_","0","1">>

\* a file as read_csv sees it: [exists, columns, rows], every cell a text
CsvFile(columns, rows) == [exists |-> TRUE, columns |-> columns, rows |-> rows]

\* pd.read_csv(path, dtype=str).fillna("")
read_csv_fillna(csv) == read_any_fillna(csv)

\* the reference table of load_reference_db when the file cannot be read
NoReferenceTable == [columns |-> <<CommonName, Genus, Species>>, rows |-> <<>>]

\* cols = {key: c for c in df.columns}; ren[cols[key]] = name: the column
\* renamed is the last one with the key
renamed_reference_column(columns, i) ==
    LET key == header_key(columns[i])
        is_last == \A j \in (i + 1)..Len(columns) : header_key(columns[j]) # key
    IN  CASE is_last /\ key = header_key(CommonName) -> CommonName
          [] is_last /\ key = header_key(Genus) -> Genus
          [] is_last /\ key = header_key(Species) -> Species
          [] OTHER -> columns[i]

\* file: the reference CSV beside the program, [exists, columns, rows]
load_reference_db(file) ==
    IF ~file.exists THEN NoReferenceTable
    ELSE LET df == read_csv_fillna(file) IN
         [columns |-> [i \in 1..Len(df.columns) |->
                          renamed_reference_column(df.columns, i)],
          rows |-> df.rows]

\* lookup.get(common, (genus, species)): the dict comprehension keeps the
\* last reference row of each common name
lookup_get(ref, common, genus, species) ==
    LET hits == { i \in 1..Len(ref.rows) :
                    lower(strip(cell_or_empty(ref, ref.rows[i], CommonName))) = common }
    IN  IF hits = {} THEN <<genus, species>>
        ELSE LET i == CHOOSE h \in hits : \A k \in hits : k <= h
             IN  <<cell_or_empty(ref, ref.rows[i], Genus),
                   cell_or_empty(ref, ref.rows[i], Species)>>

\* autofill_species on one row of the canonical frame
autofill_row(row, ref) ==
    LET genus == strip(astype_str(row[iGenus]))
        species == strip(astype_str(row[iSpecies]))
        common == lower(strip(astype_str(row[col_index(LOG_COLUMNS, CommonName)])))
        gs == lookup_get(ref, common, genus, species)
    IN  IF genus # <<>> /\ species # <<>> THEN row
        ELSE [row EXCEPT ![iGenus] = IF genus = <<>> THEN gs[1] ELSE @,
                         ![iSpecies] = IF species = <<>> THEN gs[2] ELSE @]

autofill_species(df, ref) ==
    IF ref.rows = <<>> THEN df
    ELSE [df EXCEPT !.rows = [i \in 1..Len(@) |-> autofill_row(@[i], ref)]]

\* inc[c].astype(str).str.lower().isin(["1", "true", "yes", "y"])
import_isin(c) ==
    lower(astype_str(c)) \in { <<"1">>, <<"t","r","u","e">>, <<"y","e","s">>, <<"y">> }

\* the column-presence check, the boolean coercion and inc[LOG_COLUMNS]
import_columns(inc) ==
    [columns |-> LOG_COLUMNS,
     rows |-> [i \in 1..Len(inc.rows) |->
                 [k \in 1..Len(LOG_COLUMNS) |->
                     LET c == LOG_COLUMNS[k]
                         v == IF c \in Range(inc.columns)
                              THEN inc.rows[i][col_index(inc.columns, c)]
                              ELSE backfill_default(c)
                     IN  IF c \in BOOL_COLUMNS THEN bool_cell(import_isin(v)) ELSE v]]]

RECURSIVE import_max_suffix(_, _, _)
\* the loop of import_csv over the Record ID cells of the subset
import_max_suffix(cells, i, n) ==
    IF i > Len(cells) THEN n
    ELSE LET m == re_search_suffix(astype_str(cells[i]))
         IN  import_max_suffix(cells, i + 1, IF m # <<>> THEN max(n, int(m)) ELSE n)

\* the rows already numbered are not remembered
existing_concat_none(existing, g, s, rid) == existing

\* pd.concat([existing, pd.DataFrame([{Genus, Species, Record ID}])])
existing_concat(existing, g, s, rid) == Append(existing, <<g, s, rid>>)

RECURSIVE import_ids(_, _, _)
\* the loop over inc.iterrows() (i: the next row); existing holds the
\* (Genus, Species, Record ID) of the log rows and of the rows numbered so far
import_ids(rows, i, existing) ==
    IF i > Len(rows) THEN rows
    ELSE IF strip(astype_str(rows[i][iRecordID])) # <<>>
         THEN import_ids(rows, i + 1, existing)
         ELSE LET g == rows[i][iGenus]
                  s == rows[i][iSpecies]
                  subset == SelectSeq(existing, LAMBDA e : e[1] = g /\ e[2] = s)
                  ids == SelectSeq([k \in 1..Len(subset) |-> subset[k][3]],
                                   LAMBDA c : c # NaN)
                  n == import_max_suffix(ids, 1, 0)
                  rid == safe_slug(g) \o <<"_">> \o safe_slug(s) \o <<"_">>
                            \o format_02d(n + 1)
              IN  import_ids([rows EXCEPT ![i][iRecordID] = rid], i + 1,
                             existing_concat(existing, g, s, rid))

\* what import_csv does with the chosen file: the file it leaves, the
\* message box it shows, the rows it appended, whether it wrote the file
import_csv_outcome(file, csv, reference) ==
    IF ~csv.exists
    THEN [log |-> file, msg |-> "Import Error", inc |-> <<>>, written |-> FALSE]
    ELSE LET inc == autofill_species(import_columns(read_csv_fillna(csv)),
                                     load_reference_db(reference))
             df == read_log_df(file)
             existing == [i \in 1..Len(df.rows) |->
                            <<df.rows[i][iGenus], df.rows[i][iSpecies], df.rows[i][iRecordID]>>]
             rows == import_ids(inc.rows, 1, existing)
         IN  [log |-> write_log_df([df EXCEPT !.rows = @ \o rows]),
              msg |-> "Import", inc |-> rows, written |-> TRUE]

\* the reference CSV beside the program: absent, or a table with variant
\* headers
ReferenceDbs ==
    { NoRef,
      CsvFile(<< <<"c","o","m","m","o","n","_","n","a","m","e">>,
                 <<"g","e","n","u","s">>,
                 <<"s","p","e","c","i","e","s">> >>,
              << <<T_RedMaple, T_Acer, T_rubrum>> >>) }

\* two rows without an id, of one species, with check marks spelled
\* in several ways
CsvIdless ==
    CsvFile(<<Genus, Species, HasLeaf, HasBark>>,
            << <<T_Acer, T_rubrum, T_y, T_YES>>,
               <<T_Acer, T_rubrum, T_no, T_1>> >>)

\* a row that carries an id, then a row of the same species without one
CsvPreset ==
    CsvFile(<<RecordID, Genus, Species>>,
            << <<T_acer_rubrum_01, T_Acer, T_rubrum>>,
               <<<<>>, T_Acer, T_rubrum>> >>)

\* variant headers
CsvVariant ==
    CsvFile(<< <<"g","e","n","u","s">>, <<"s","p","e","c","i","e","s">>,
               <<"C","o","m","m","o","n","_","N","a","m","e">> >>,
            << <<T_Quercus, T_macrocarpa, T_BurOak>> >>)

\* a common name alone
CsvCommon ==
    CsvFile(<<CommonName, Archived>>,
            << <<lower(T_RedMaple) \o <<" ">>, <<"T","r","u","e">> >> >>)

\* a blank id and a genus followed by a space
CsvBlankId ==
    CsvFile(<<RecordID, Genus, Species>>,
            << << <<" ">>, T_Acer \o <<" ">>, T_rubrum>> >>)

\* the files the user may choose in the Import dialog; NoRef: one that
\* read_csv cannot read
ImportFiles == { CsvIdless, CsvPreset, CsvVariant, CsvCommon, CsvBlankId, NoRef }

import_csv(csv, reference) ==
    LET out == import_csv_outcome(log, csv, reference) IN
    /\ Len(out.log.rows) <= MaxRows
    /\ \A i \in 1..Len(out.inc) :
           int(re_search_suffix(astype_str(out.inc[i][iRecordID]))) <= MaxSeq
    /\ log' = out.log
    /\ tree' = IF out.written THEN reload_table(out.log) ELSE tree
    /\ last' = Outcome("import_csv", out.msg)
    /\ UNCHANGED <<species_db, dialogs, now, db_file, df_full, preview, audit, filters>>

-----------------------------------------------------------------------------
(* Species tab (species_db.py) *)

DISPLAY_ORDER == <<Genus, Species, CommonName, Family>>

\* HEADER_ALIASES of species_db.py
species_db_HEADER_ALIASES ==
    (<<"g","e","n","u","s">> :> Genus) @@
    (<<"s","p","e","c","i","e","s">> :> Species) @@
    (<<"c","o","m","m","o","n","n","a","m","e">> :> CommonName) @@
    (<<"c","o","m","m","o","n","_","n","a","m","e">> :> CommonName) @@
    (<<"f","a","m","i","l","y">> :> Family)

\* HEADER_ALIASES.get(key, col.strip()) of species_db.py; the key is built
\* as in logger_tab.py
species_db_normalize_header(col) ==
    IF header_key(col) \in DOMAIN species_db_HEADER_ALIASES
    THEN species_db_HEADER_ALIASES[header_key(col)]
    ELSE strip(col)

\* _normalize_headers of species_db.py
species_db_normalize_headers(df) ==
    [columns |-> [i \in 1..Len(df.columns) |-> species_db_normalize_header(df.columns[i])],
     rows |-> df.rows]

RECURSIVE _ensure_columns(_, _, _)
\* df[c] = "" for every column of the list the frame lacks (i: the next)
_ensure_columns(df, columns, i) ==
    IF i > Len(columns) THEN df
    ELSE IF columns[i] \in Range(df.columns) THEN _ensure_columns(df, columns, i + 1)
         ELSE _ensure_columns(
                 [columns |-> Append(df.columns, columns[i]),
                  rows |-> [r \in 1..Len(df.rows) |-> Append(df.rows[r], <<>>)]],
                 columns, i + 1)

\* headers as species files spell them
HeaderVariants ==
    { <<"g","e","n","u","s">>,
      <<" ","G","e","n","u","s">>,
      <<"S","P","E","C","I","E","S">>,
      <<"C","o","m","m","o","n","_","N","a","m","e">>,
      <<"C","O","M","M","O","N","N","A","M","E">>,
      <<" ","c","o","m","m","o","n"," ","n","a","m","e"," ">>,
      <<"T","Y","P","E">>,
      <<"g","r","o","u","p">>,
      <<"F","a","m","i","l","y">>,
      <<"N","o","t","e","s"," ">>,
      <<"A","u","t","h","o","r","_","i","t","y">> }

\* the files the user may pick in the Species tab: two columns with
\* different headers and one row; NoRef: a file that cannot be read
SpeciesSheets ==
    { CsvFile(hs, << <<T_Acer, <<>> >> >>) :
          hs \in { p \in HeaderVariants \X HeaderVariants : p[1] # p[2] } }
    \cup { NoRef }

\* what load_from_path leaves in df_full: the table of the file, or the
\* table it had when the file cannot be read ("Load Error")
load_from_path_df(file, old) ==
    IF ~file.exists THEN old
    ELSE _ensure_columns(species_db_normalize_headers(read_any_fillna(file)),
                         DISPLAY_ORDER, 1)

load_from_path(file) ==
    /\ df_full' = load_from_path_df(file, df_full)
    /\ db_file' = IF file.exists THEN file ELSE db_file
    /\ UNCHANGED <<log, species_db, tree, dialogs, now, last, preview, audit, filters>>

-----------------------------------------------------------------------------
(* Environment *)

\* a minute passes
tick ==
    /\ now < MaxTime
    /\ now' = now + 1
    /\ UNCHANGED <<log, species_db, tree, dialogs, last, db_file, df_full, preview, audit, filters>>

\* another program rewrites the log file without one of its rows; the
\* logger reads the file anew in every handler and sees the change there
external_delete(i) ==
    /\ i \in 1..Len(log.rows)
    /\ log' = [log EXCEPT !.rows = SubSeq(@, 1, i - 1) \o SubSeq(@, i + 1, Len(@))]
    /\ UNCHANGED <<species_db, tree, dialogs, now, last, db_file, df_full, preview, audit, filters>>

-----------------------------------------------------------------------------
(* The log file as other programs leave it; the Audit tab's reader *)

T_x == <<"x">>
T_Extra == <<"E","x","t","r","a">>

\* headers a log file may be found with: the canonical one, canonical
\* columns missing and out of order, columns the logger does not know, none
LogHeaders ==
    { LOG_COLUMNS,
      <<Genus, Timestamp>>,
      <<HasLeaf, T_Extra, RecordID>>,
      << <<"g","e","n","u","s">>, Notes, Archived >>,
      <<T_Extra>>,
      <<>> }

\* the texts its cells may hold
LogCellTexts == { T_x, <<>>, <<"T","r","u","e">> }

\* the log files another program may leave: up to MaxRows rows (none
\* without columns), each with a first cell that is not blank, and a file
\* read_excel cannot read
LogSheets ==
    { [readable |-> TRUE, columns |-> h,
       rows |-> [i \in 1..(IF h = <<>> THEN 0 ELSE n) |->
                   [k \in 1..Len(h) |-> IF k = 1 THEN T_x ELSE v]]] :
          h \in LogHeaders, n \in 0..MaxRows, v \in LogCellTexts }
    \cup { [readable |-> FALSE, columns |-> <<>>, rows |-> <<>>] }

\* the list `needed` of audit_tab.py
needed == LOG_COLUMNS

\* the columns of the frame audit_tab.py builds when the file cannot be read
audit_unreadable_columns == <<Genus, Species, CommonName, Type, Group>>

\* read_log_df of audit_tab.py
audit_read_log_df(file) ==
    LET df == IF file.readable
              THEN [columns |-> file.columns,
                    rows |-> [i \in 1..Len(file.rows) |->
                                [k \in 1..Len(file.rows[i]) |-> read_cell(file.rows[i][k])]]]
              ELSE [columns |-> audit_unreadable_columns, rows |-> <<>>]
    IN  [columns |-> needed,
         rows |-> [i \in 1..Len(df.rows) |->
                     [k \in 1..Len(needed) |->
                         IF needed[k] \in Range(df.columns)
                         THEN df.rows[i][col_index(df.columns, needed[k])]
                         ELSE IF needed[k] \in {HasLeaf, HasBark, HasTree, HasOther,
                                                Scanned, Archived}
                              THEN BoolFalse ELSE <<>>]]]

\* another program replaces the log file
external_write(file) ==
    /\ log' = file
    /\ UNCHANGED <<species_db, tree, dialogs, now, last, db_file, df_full, preview, audit, filters>>

\* a filter box or the search box changes: the table is reloaded
on_change ==
    /\ tree' = reload_table(log)
    /\ last' = Outcome("reload_table", "")
    /\ UNCHANGED <<log, species_db, dialogs, now, db_file, df_full, preview, audit, filters>>

-----------------------------------------------------------------------------
(* The Audit tab: compute_audit *)

T_Leaf == <<"L","e","a","f">>
T_Bark == <<"B","a","r","k">>
T_Tree == <<"T","r","e","e">>
T_Other == <<"O","t","h","e","r">>

\* the columns compute_audit groups by
GROUP_KEYS == <<Genus, Species, CommonName, Type, Group>>

\* the group key of a row of the frame
group_key(r) == [k \in 1..Len(GROUP_KEYS) |-> r[col_index(needed, GROUP_KEYS[k])]]

\* the order groupby sorts one key column by: NaN after every value
cell_lt(a, b) == a # NaN /\ (b = NaN \/ str_lt(a, b))

RECURSIVE key_lt(_, _)
\* the order of two key tuples
key_lt(a, b) ==
    IF a = <<>> THEN FALSE
    ELSE IF Head(a) = Head(b) THEN key_lt(Tail(a), Tail(b))
    ELSE cell_lt(Head(a), Head(b))

RECURSIVE sort_keys(_)
\* the group keys in the order groupby yields them
sort_keys(K) ==
    IF K = {} THEN <<>>
    ELSE LET m == CHOOSE k \in K : \A o \in K \ {k} : key_lt(k, o)
         IN  <<m>> \o sort_keys(K \ {m})

\* df.groupby([...], dropna=False): the keys of the groups
grouped(df) == sort_keys({ group_key(df.rows[i]) : i \in 1..Len(df.rows) })

\* a group that takes in every row of the frame
grp_df_all(df, key) == df.rows

\* grp_df: the rows of one group, NaN keys grouped with NaN keys
grp_df(df, key) == SelectSeq(df.rows, LAMBDA r : group_key(r) = key)

\* int(grp_df[col].sum()) after the coercion of lines 44-45
sum(grp, col) ==
    Cardinality({ i \in 1..Len(grp) : audit_isin(grp[i][col_index(needed, col)]) })

RECURSIVE join(_, _)
\* sep.join(parts)
join(sep, parts) ==
    IF parts = <<>> THEN <<>>
    ELSE IF Len(parts) = 1 THEN parts[1]
    ELSE parts[1] \o sep \o join(sep, Tail(parts))

\* a list `missing` that names the categories that are covered
missing_covered(leaf_ct, bark_ct, tree_ct, other_ct) ==
    (IF leaf_ct # 0 THEN <<T_Leaf>> ELSE <<>>) \o (IF bark_ct # 0 THEN <<T_Bark>> ELSE <<>>)
    \o (IF tree_ct # 0 THEN <<T_Tree>> ELSE <<>>) \o (IF other_ct # 0 THEN <<T_Other>> ELSE <<>>)

\* the list `missing` of lines 57-61
missing(leaf_ct, bark_ct, tree_ct, other_ct) ==
    (IF leaf_ct = 0 THEN <<T_Leaf>> ELSE <<>>) \o (IF bark_ct = 0 THEN <<T_Bark>> ELSE <<>>)
    \o (IF tree_ct = 0 THEN <<T_Tree>> ELSE <<>>) \o (IF other_ct = 0 THEN <<T_Other>> ELSE <<>>)

\* `g or ""`: a falsy key becomes the empty string, NaN is truthy and stays
or_empty(c) == IF c \in { <<>>, BoolFalse } THEN <<>> ELSE c

\* the row compute_audit appends for one group
audit_row(df, key) ==
    LET grp == grp_df(df, key)
        leaf_ct == sum(grp, HasLeaf)
        bark_ct == sum(grp, HasBark)
        tree_ct == sum(grp, HasTree)
        other_ct == sum(grp, HasOther)
    IN  [Genus |-> or_empty(key[1]), Species |-> or_empty(key[2]),
         CommonName |-> or_empty(key[3]), Type |-> or_empty(key[4]),
         Group |-> or_empty(key[5]),
         Entries |-> Len(grp), Leaf |-> leaf_ct, Bark |-> bark_ct,
         Tree |-> tree_ct, Other |-> other_ct,
         Scanned |-> sum(grp, Scanned), Archived |-> sum(grp, Archived),
         Missing |-> join(<<",", " ">>, missing(leaf_ct, bark_ct, tree_ct, other_ct))]

RECURSIVE sorted_str(_)
\* sorted(list of distinct str)
sorted_str(S) ==
    IF S = {} THEN <<>>
    ELSE LET m == CHOOSE a \in S : \A b \in S \ {a} : str_lt(a, b)
         IN  <<m>> \o sorted_str(S \ {m})

\* sorted([t for t in df[col].dropna().astype(str).unique().tolist() if t.strip()])
unique_values(df, col) ==
    sorted_str({ astype_str(df.rows[i][col_index(needed, col)]) :
                    i \in { j \in 1..Len(df.rows) :
                              /\ df.rows[j][col_index(needed, col)] # NaN
                              /\ strip(astype_str(df.rows[j][col_index(needed, col)])) # <<>> } })

\* compute_audit(df): audit_df (its rows), types, groups
compute_audit(df) ==
    IF df.rows = <<>> THEN NoAudit
    ELSE LET keys == grouped(df) IN
         [rows |-> [j \in 1..Len(keys) |-> audit_row(df, keys[j])],
          types |-> unique_values(df, Type),
          groups |-> unique_values(df, Group)]

\* load_and_render with the Audit tab's filters as built ("All", unchecked,
\* empty search): the table shows every audit row
load_and_render ==
    /\ audit' = compute_audit(audit_read_log_df(log))
    /\ UNCHANGED <<log, species_db, tree, dialogs, now, last, db_file, df_full, preview, filters>>

\* the log files the Audit tab may find
MaxAuditRows == 3

\* a row of a log file with the canonical header
AuditRow(genus, typ, leaf) ==
    [k \in 1..Len(LOG_COLUMNS) |->
        CASE LOG_COLUMNS[k] = Genus -> genus
          [] LOG_COLUMNS[k] = Type -> typ
          [] LOG_COLUMNS[k] = HasLeaf -> leaf
          [] LOG_COLUMNS[k] \in { HasBark, Scanned } -> T_YES
          [] LOG_COLUMNS[k] \in { HasTree, CommonName, Group, PhotoPath, Notes } -> <<>>
          [] LOG_COLUMNS[k] = HasOther -> T_no
          [] LOG_COLUMNS[k] = Archived -> T_1
          [] OTHER -> T_x]

AuditRows ==
    { AuditRow(genus, typ, leaf) :
        genus \in { T_x, <<>> }, typ \in { T_x, T_Extra }, leaf \in { <<"T","r","u","e">>, <<>> } }

\* the header of a log file without the columns Species .. Group and without
\* five of the boolean columns
ShortHeader == <<Genus, HasLeaf, Timestamp>>

ShortRows == { <<genus, leaf, T_x>> : genus \in { T_x, T_Extra }, leaf \in { T_1, T_no } }

RECURSIVE SeqsUpTo(_, _)
\* the sequences of at most n members of S
SeqsUpTo(S, n) ==
    IF n = 0 THEN { <<>> }
    ELSE LET shorter == SeqsUpTo(S, n - 1) IN
         shorter \cup { Append(s, x) : s \in { t \in shorter : Len(t) = n - 1 }, x \in S }

AuditSheets ==
    { [readable |-> TRUE, columns |-> LOG_COLUMNS, rows |-> rows] :
          rows \in SeqsUpTo(AuditRows, MaxAuditRows) }
    \cup { [readable |-> TRUE, columns |-> ShortHeader, rows |-> rows] :
          rows \in SeqsUpTo(ShortRows, MaxAuditRows) }
    \cup { [readable |-> FALSE, columns |-> <<>>, rows |-> <<>>] }

-----------------------------------------------------------------------------

(* The logger's filters: filtered_df with the boxes set *)

T_Scanned == Scanned
T_Unscanned == <<"U","n","s","c","a","n","n","e","d">>
T_Archived == Archived
T_Unarchived == <<"U","n","a","r","c","h","i","v","e","d">>

\* the values of status_cb
STATUS_VALUES == <<T_All, T_Scanned, T_Unscanned, T_Archived, T_Unarchived>>

\* term_cols
term_cols == <<Genus, Species, CommonName, RecordID, Notes>>

\* a cell of a row of `out`
cell(r, c) == r[col_index(LOG_COLUMNS, c)]

\* a search that looks at the Genus column only
search_mask_genus(r, term) == contains(lower(astype_str(cell(r, Genus))), term)

\* the mask of lines 596-598: some term column, as str, lower-cased,
\* contains the term (the terms of the model hold letters, digits and
\* spaces, for which the pattern search of str.contains is a substring test)
search_mask(r, term) ==
    \E k \in 1..Len(term_cols) : contains(lower(astype_str(cell(r, term_cols[k]))), term)

\* a status filter that keeps every row
status_mask_all(r, ssel) == TRUE

\* lines 582-589
status_mask(r, ssel) ==
    IF ssel = T_Scanned THEN cell(r, Scanned) = BoolTrue
    ELSE IF ssel = T_Unscanned THEN cell(r, Scanned) # BoolTrue
    ELSE IF ssel = T_Archived THEN cell(r, Archived) = BoolTrue
    ELSE IF ssel = T_Unarchived THEN cell(r, Archived) # BoolTrue
    ELSE TRUE

\* lines 577-580: `sel and sel != "All"` filters the column, as str, by equality
select_mask(r, col, sel) ==
    (sel # <<>> /\ sel # T_All) => astype_str(cell(r, col)) = sel

\* lines 591-592
missing_mask(r, only) ==
    only => ~(\A c \in { HasLeaf, HasBark, HasTree, HasOther } : cell(r, c) = BoolTrue)

\* filtered_df (lines 555-601) with the boxes set as f: the frame with its
\* boolean columns normalised, then one mask after the other
filtered_df_with(file, f) ==
    LET term == lower(strip(f.search_var)) IN
    SelectSeq(filtered_df(file),
              LAMBDA r : /\ select_mask(r, Type, f.type_cb)
                         /\ select_mask(r, Group, f.group_cb)
                         /\ status_mask(r, f.status_cb)
                         /\ missing_mask(r, f.only_missing)
                         /\ (term # <<>> => search_mask(r, term)))

\* the values filtered_df puts in type_cb and group_cb (lines 558-565)
box_values(file, col) == <<T_All>> \o unique_values(read_log_df(file), col)

\* reload_table with the boxes set as f
reload_table_with(f) ==
    /\ filters' = f
    /\ tree' = filtered_df_with(log, f)
    /\ last' = Outcome("reload_table", "")
    /\ UNCHANGED <<log, species_db, dialogs, now, db_file, df_full, preview, audit>>

\* a value of type_cb is selected: <<ComboboxSelected>> calls on_change
select_type(t) ==
    /\ t \in Range(box_values(log, Type))
    /\ reload_table_with([filters EXCEPT !.type_cb = t])

select_group(g) ==
    /\ g \in Range(box_values(log, Group))
    /\ reload_table_with([filters EXCEPT !.group_cb = g])

select_status(s) ==
    /\ s \in Range(STATUS_VALUES)
    /\ reload_table_with([filters EXCEPT !.status_cb = s])

\* the Only Missing Parts check box is clicked
toggle_only_missing == reload_table_with([filters EXCEPT !.only_missing = ~@])

\* the search box is written
write_search(text) == reload_table_with([filters EXCEPT !.search_var = text])

\* the logs the filters are tried on
MaxFilterRows == 2

T_na == <<"n","a">>
T_zz == <<"z","z">>

\* a row of the log: Group is set with Type x only, Has Leaf with a missing
\* Genus only
FilterRow(typ, scanned, genus) ==
    [k \in 1..Len(LOG_COLUMNS) |->
        CASE LOG_COLUMNS[k] = Genus -> genus
          [] LOG_COLUMNS[k] = Species -> T_Acer
          [] LOG_COLUMNS[k] = CommonName -> T_RedMaple
          [] LOG_COLUMNS[k] = Type -> typ
          [] LOG_COLUMNS[k] = Group -> IF typ = T_x THEN T_Maples ELSE <<>>
          [] LOG_COLUMNS[k] = Scanned -> scanned
          [] LOG_COLUMNS[k] = HasLeaf -> IF genus = <<>> THEN T_YES ELSE <<>>
          [] LOG_COLUMNS[k] \in { HasBark, HasTree, HasOther } -> <<"T","r","u","e">>
          [] LOG_COLUMNS[k] \in { Archived, Notes } -> T_no
          [] LOG_COLUMNS[k] = PhotoPath -> <<>>
          [] OTHER -> T_1]

FilterRows ==
    { FilterRow(typ, scanned, genus) :
        typ \in { T_x, T_Extra }, scanned \in { <<"T","r","u","e">>, <<>> },
        genus \in { T_x, <<>> } }

FilterSheets ==
    { [readable |-> TRUE, columns |-> LOG_COLUMNS, rows |-> rows] :
          rows \in SeqsUpTo(FilterRows, MaxFilterRows) }

\* what may be typed in the search box
SearchTexts == { <<>>, <<" ","X"," ">>, T_na, T_zz }

-----------------------------------------------------------------------------

(* The Species tab: add_species *)

\* the file _write_any leaves: the header and the cells of the frame
_write_any(df) == [exists |-> TRUE, columns |-> df.columns, rows |-> df.rows]

\* df.empty: no row or no column
frame_empty(df) == df.rows = <<>> \/ df.columns = <<>>

\* the new_row dict of add_species laid out along the columns
species_new_row(columns, genus, species, common, family) ==
    [k \in 1..Len(columns) |->
        IF columns[k] = Genus THEN genus
        ELSE IF columns[k] = Species THEN species
        ELSE IF columns[k] = CommonName THEN common
        ELSE IF columns[k] = Family THEN family
        ELSE <<>>]

\* add_species: what it leaves in df_full and in the file, and the message
\* box it shows; write_ok tells whether _write_any succeeds
add_species_outcome(df, file, genus, species, common, family, write_ok) ==
    LET g == strip(genus)
        s == strip(species)
        base == IF frame_empty(df) THEN [columns |-> DISPLAY_ORDER, rows |-> <<>>] ELSE df
        added == [columns |-> base.columns,
                  rows |-> Append(base.rows,
                                  species_new_row(base.columns, g, s, strip(common),
                                                  strip(family)))]
    IN  IF ~file.exists
        THEN [df_full |-> df, file |-> file, msg |-> "No File"]
        ELSE IF g = <<>> \/ s = <<>>
        THEN [df_full |-> df, file |-> file, msg |-> "Missing Data"]
        ELSE IF write_ok
        THEN [df_full |-> added, file |-> _write_any(added), msg |-> ""]
        ELSE [df_full |-> added, file |-> file, msg |-> "Save Error"]

\* the tables of the Species tab are kept this short
MaxSpeciesRows == 3

\* the Add button
add_species(genus, species, common, family, write_ok) ==
    LET out == add_species_outcome(df_full, db_file, genus, species, common, family, write_ok)
    IN  /\ Len(out.df_full.rows) <= MaxSpeciesRows
        /\ df_full' = out.df_full
        /\ db_file' = out.file
        /\ last' = Outcome("add_species", out.msg)
        /\ UNCHANGED <<log, species_db, tree, dialogs, now, preview, audit, filters>>

\* the files opened before rows are added: none that can be read, a table
\* of one row, a header without rows, a table with a column of its own
AddSheets ==
    { NoRef,
      CsvFile(DISPLAY_ORDER, << <<T_Carya, T_cordiformis, <<>>, <<>> >> >>),
      CsvFile(<<Genus, Species, Notes>>, <<>>),
      CsvFile(<<Notes, Species, Genus>>, << <<T_x, T_alba, T_Quercus>> >>) }

\* what is typed in the Genus and Species entries
GenusInputs == { <<" ">> \o T_Acer, T_Quercus, <<" ">> }
SpeciesInputs == { T_rubrum, <<>> }

-----------------------------------------------------------------------------

(* Specifications *)

Next ==
    \/ \E form \in NewForms : save_new(form)
    \/ \E sel \in SUBSET (1..Len(tree)) : delete_selected(sel)
    \/ \E i \in 1..Len(tree) : edit_selected(i)
    \/ \E row \in dialogs, input \in EditInputs : save_edit(row, input)
    \/ \E row \in dialogs : cancel_edit(row)
    \/ tick

\* the logger alone owns the log file
Spec == Init /\ [][Next]_vars

NextExt == Next \/ \E i \in 1..Len(log.rows) : external_delete(i)

\* the log file is also rewritten from outside
SpecExt == Init /\ [][NextExt]_vars

NextImport ==
    \/ \E form \in NewForms : save_new(form)
    \/ \E sel \in SUBSET (1..Len(tree)) : delete_selected(sel)
    \/ \E csv \in ImportFiles, reference \in ReferenceDbs : import_csv(csv, reference)

\* the logger with its Import CSV button
SpecImport == Init /\ [][NextImport]_vars

NextSpeciesTab == \E file \in SpeciesSheets : load_from_path(file)

\* the Species tab and its Open button
SpecSpeciesTab == Init /\ [][NextSpeciesTab]_vars

\* the logger built with any of the species files
InitRefs ==
    /\ log = ensure_dir_structure
    /\ species_db \in DOMAIN ReferenceFiles
    /\ tree = reload_table(ensure_dir_structure)
    /\ dialogs = {}
    /\ now = 0
    /\ last = Outcome("build_logger_tab", "")
    /\ db_file = NoRef
    /\ df_full = EmptyFrame
    /\ preview = NoPreview
    /\ audit = NoAudit
    /\ filters = NoFilters

NextRefs ==
    \/ \E text \in ResolverTexts : update_preview(text)
    \/ \E form \in NewForms : save_new(form)
    \/ \E sel \in SUBSET (1..Len(tree)) : delete_selected(sel)

\* the species box, Auto-Fill and Save over every species file
SpecRefs == InitRefs /\ [][NextRefs]_vars

NextFiles ==
    \/ \E file \in LogSheets : external_write(file)
    \/ on_change

\* the logger's table over a log file that other programs write
SpecFiles == Init /\ [][NextFiles]_vars

\* the Audit tab opened on any log file
InitAudit ==
    /\ log \in AuditSheets
    /\ species_db = ""
    /\ tree = reload_table(log)
    /\ dialogs = {}
    /\ now = 0
    /\ last = Outcome("build_logger_tab", "")
    /\ db_file = NoRef
    /\ df_full = EmptyFrame
    /\ preview = NoPreview
    /\ audit = NoAudit
    /\ filters = NoFilters

NextAudit == load_and_render

\* the Audit tab and its refresh
SpecAudit == InitAudit /\ [][NextAudit]_vars

\* the logger opened on any log
InitFilter ==
    /\ log \in FilterSheets
    /\ species_db = ""
    /\ tree = reload_table(log)
    /\ dialogs = {}
    /\ now = 0
    /\ last = Outcome("build_logger_tab", "")
    /\ db_file = NoRef
    /\ df_full = EmptyFrame
    /\ preview = NoPreview
    /\ audit = NoAudit
    /\ filters = NoFilters

NextFilter ==
    \/ \E t \in { T_All, T_x, T_Extra } : select_type(t)
    \/ \E g \in { T_All, T_Maples } : select_group(g)
    \/ \E s \in Range(STATUS_VALUES) : select_status(s)
    \/ toggle_only_missing
    \/ \E text \in SearchTexts : write_search(text)

\* the filter boxes, the check box and the search box over a log
SpecFilter == InitFilter /\ [][NextFilter]_vars

NextAddSpecies ==
    \/ \E file \in AddSheets : load_from_path(file)
    \/ \E genus \in GenusInputs, species \in SpeciesInputs, write_ok \in BOOLEAN :
          add_species(genus, species, T_RedMaple, <<>>, write_ok)

\* the Species tab with its Open and Add buttons; a write may fail
SpecAddSpecies == Init /\ [][NextAddSpecies]_vars

-----------------------------------------------------------------------------
(* Properties *)

\* the rows of the log, as every handler reads them
log_rows == read_log_df(log).rows

\* the Record ID of a row, as the handlers compare it
record_id_of(r) == astype_str(r[iRecordID])

\* the (Timestamp, Record ID) of a row equals the key
same_key(r, key) ==
    astype_str(r[iTimestamp]) = key[1] /\ astype_str(r[iRecordID]) = key[2]

\* some row of the log carries the id
id_in_log(rid) == \E i \in 1..Len(log_rows) : record_id_of(log_rows[i]) = rid

\* the cell holds a text
IsText(c) == c \notin {NaN, BoolTrue, BoolFalse}

\* the number that ends an id, 0 when it ends in none
number_of(rid) == int(re_search_suffix(rid))

\* the numbers that end the Record IDs of the rows of a genus and species
suffix_numbers(rows, g, sp) ==
    { number_of(record_id_of(rows[i])) :
        i \in { j \in 1..Len(rows) :
                  /\ rows[j][iGenus] = g
                  /\ rows[j][iSpecies] = sp
                  /\ rows[j][iRecordID] # NaN
                  /\ re_search_suffix(record_id_of(rows[j])) # <<>> } }

\* the greatest number of a set, 0 for the empty set
highest(S) == IF S = {} THEN 0 ELSE CHOOSE n \in S : \A m \in S : m <= n

\* the genus and species save_new can ask an id for: those of the species
\* records loaded when the tab was built
SpeciesPairs ==
    { <<rec[Genus], rec[Species]>> : rec \in Range(alias_to_rec) \cup Range(records) }

\* what save_new would do with the form now
save_new_now(form) == save_new_outcome(log, form, now, alias_to_rec, records)

\* C1: after any save_new, save_edit or delete_selected, no two rows of the
\* log have the same Record ID
C1_UniqueRecordIDs ==
    \A i, j \in 1..Len(log_rows) :
        i # j => record_id_of(log_rows[i]) # record_id_of(log_rows[j])

\* save_new has refused a colliding id while the log held two records
C1_Witness ==
    /\ Len(log_rows) = 2
    /\ last = Outcome("save_new", "Duplicate")

\* C2: when the id save_new generates is already in the log, the id is
\* generated once more and no further; when that one is in the log too,
\* save_new shows the Duplicate error and leaves the log file as it was
C2_OneRetryThenDuplicate ==
    \A form \in NewForms :
        LET out == save_new_now(form) IN
        (out.ids # <<>> /\ id_in_log(out.ids[1])) =>
            /\ Len(out.ids) = 2
            /\ id_in_log(out.ids[2]) =>
                   (out.msg = "Duplicate" /\ ~out.written /\ out.log = log)

\* save_new has shown the Duplicate error on a log of one record
C2_Witness ==
    /\ Len(log_rows) = 1
    /\ last = Outcome("save_new", "Duplicate")

\* C3: next_record_id returns slug(genus)_slug(species)_NN, NN being one
\* more than the greatest number that ends the Record ID of a row of that
\* genus and species, 01 when there is none
C3_NextRecordId ==
    \A p \in SpeciesPairs :
        next_record_id(log, p[1], p[2]) =
            safe_slug(p[1]) \o <<"_">> \o safe_slug(p[2]) \o <<"_">>
                \o format_02d(highest(suffix_numbers(log_rows, p[1], p[2])) + 1)

\* a second record of a species has been saved: its rows end in 01 and 02
C3_Witness ==
    /\ last = Outcome("save_new", "Saved")
    /\ \E p \in SpeciesPairs : suffix_numbers(log_rows, p[1], p[2]) = {1, 2}

\* the row is the highest-numbered of its genus and species
highest_of_species(rows, i) ==
    /\ IsText(rows[i][iGenus])
    /\ IsText(rows[i][iSpecies])
    /\ rows[i][iRecordID] # NaN
    /\ re_search_suffix(record_id_of(rows[i])) # <<>>
    /\ number_of(record_id_of(rows[i])) =
           highest(suffix_numbers(rows, rows[i][iGenus], rows[i][iSpecies]))

\* the step removes row i from the log, and no other row
removed_alone(i) ==
    /\ Len(log_rows') = Len(log_rows) - 1
    /\ \A j \in 1..Len(log_rows') :
           ~same_key(log_rows'[j], <<astype_str(log_rows[i][iTimestamp]),
                                     record_id_of(log_rows[i])>>)

\* C4 as stated: once the highest-numbered record of a species is deleted,
\* the next id of that species ends in the number that record had
C4_FreedNumberAssignedAgain ==
    [][\A i \in 1..Len(log_rows) :
          (highest_of_species(log_rows, i) /\ removed_alone(i)) =>
              number_of(next_record_id(log', log_rows[i][iGenus], log_rows[i][iSpecies]))
                  = number_of(record_id_of(log_rows[i]))]_vars

\* C4: once the highest-numbered record of a species is deleted, the next
\* id of that species ends in one more than the greatest number left among
\* the rows of that species (01 when none is left), and so in the freed
\* number exactly when the number before it is the greatest left
C4_RecomputedFromRemaining ==
    [][\A i \in 1..Len(log_rows) :
          (highest_of_species(log_rows, i) /\ removed_alone(i)) =>
              LET g == log_rows[i][iGenus]
                  sp == log_rows[i][iSpecies]
                  freed == number_of(record_id_of(log_rows[i]))
                  left == highest(suffix_numbers(log_rows', g, sp))
                  k == number_of(next_record_id(log', g, sp))
              IN  /\ k = left + 1
                  /\ k = freed <=> left = freed - 1]_vars

\* a deletion has left one record, numbered 01, and the next id of its
\* species ends in 02
C4_Witness ==
    /\ last = Outcome("delete_selected", "")
    /\ Len(log_rows) = 1
    /\ \E p \in SpeciesPairs :
           /\ suffix_numbers(log_rows, p[1], p[2]) = {1}
           /\ number_of(next_record_id(log, p[1], p[2])) = 2

\* C5: the number that ends the id next_record_id returns is greater than
\* the number that ends the Record ID of every row of that genus and species
C5_GreaterThanEveryRow ==
    \A p \in SpeciesPairs :
        \A n \in suffix_numbers(log_rows, p[1], p[2]) :
            number_of(next_record_id(log, p[1], p[2])) > n

\* a deletion has left a species with a record numbered 02 and none
\* numbered 01
C5_Witness ==
    /\ last = Outcome("delete_selected", "")
    /\ \E p \in SpeciesPairs : suffix_numbers(log_rows, p[1], p[2]) = {2}

\* C6: save_edit leaves the number and the order of the rows, the Timestamp
\* and the Record ID of every row, and every cell of the rows whose
\* (Timestamp, Record ID) is not the key of the edited row
C6_EditFrame ==
    \A row \in dialogs : \A input \in EditInputs :
        LET after == read_log_df(save_edit_outcome(log, row, input).log).rows IN
        /\ Len(after) = Len(log_rows)
        /\ \A i \in 1..Len(log_rows) :
              /\ after[i][iTimestamp] = log_rows[i][iTimestamp]
              /\ after[i][iRecordID] = log_rows[i][iRecordID]
              /\ ~same_key(log_rows[i], <<row[iTimestamp], row[iRecordID]>>)
                     => after[i] = log_rows[i]

\* an edit has been saved into a log of two records
C6_Witness ==
    /\ last = Outcome("save_edit", "")
    /\ Len(log_rows) = 2

\* C7: when no row of the log has the key of the dialog's row, save_edit
\* shows the Not Found error and leaves the log file as it was
C7_StaleEditNotFound ==
    \A row \in dialogs : \A input \in EditInputs :
        LET out == save_edit_outcome(log, row, input) IN
        (\A i \in 1..Len(log_rows) :
            ~same_key(log_rows[i], <<row[iTimestamp], row[iRecordID]>>)) =>
            (out.msg = "Not Found" /\ ~out.written /\ out.log = log)

\* save_edit has shown the Not Found error, and the dialog is still open on
\* a row the log no longer has
C7_Witness ==
    /\ last = Outcome("save_edit", "Not Found")
    /\ \E row \in dialogs :
           \A i \in 1..Len(log_rows) :
               ~same_key(log_rows[i], <<row[iTimestamp], row[iRecordID]>>)

\* C8: when the key of a selected row is no longer in the log,
\* delete_selected reports a failure
C8_StaleDeleteReported ==
    \A sel \in SUBSET (1..Len(tree)) :
        (\E i \in sel : \A j \in 1..Len(log_rows) :
            ~same_key(log_rows[j], key_of(item_values(tree[i])))) =>
            delete_selected_outcome(log, tree, sel).msg # ""

\* C9: delete_selected leaves the rows whose (Timestamp, Record ID) is the
\* key of no selected row, as they were and in their order, and no other
C9_DeleteExactly ==
    \A sel \in SUBSET (1..Len(tree)) :
        sel # {} =>
            read_log_df(delete_selected_outcome(log, tree, sel).log).rows =
                SelectSeq(log_rows, LAMBDA r :
                    \A i \in sel : ~same_key(r, key_of(item_values(tree[i]))))

\* a deletion has left one record, which the table shows
C9_Witness ==
    /\ last = Outcome("delete_selected", "")
    /\ Len(log_rows) = 1
    /\ Len(tree) = 1

\* the text is no alias, nor is its lower case, and no species record
\* holds all of its words
Unresolvable(text) ==
    LET t == strip(text) IN
    \/ text = <<>>
    \/ /\ t \notin DOMAIN alias_to_rec
       /\ lower(t) \notin DOMAIN alias_to_rec
       /\ \A rec \in Range(records) :
              \E tok \in Range(split(lower(t))) :
                  ~contains(lower(display_full(rec)), tok)

\* C10: when the species text resolves to no species record, save_new
\* shows the Species Required warning and leaves the log file as it was
C10_SpeciesRequired ==
    \A form \in NewForms :
        Unresolvable(form.species_entry) =>
            LET out == save_new_now(form) IN
            out.msg = "Species Required" /\ ~out.written /\ out.log = log

\* save_new has shown the Species Required warning on a log with a record
C10_Witness ==
    /\ last = Outcome("save_new", "Species Required")
    /\ Len(log_rows) >= 1

\* no two of the rows have the same Record ID
distinct_ids(rows) ==
    \A i, j \in 1..Len(rows) : i # j => record_id_of(rows[i]) # record_id_of(rows[j])

\* the rows of the log after import_csv of the file, read as the handlers do
rows_after_import(csv, reference) ==
    read_log_df(import_csv_outcome(log, csv, reference).log).rows

\* C11: when the Record IDs of the log are pairwise distinct, they still are
\* after import_csv has appended the rows of any file, whether its rows
\* carry an id or not
C11_ImportKeepsIdsDistinct ==
    \A csv \in ImportFiles : \A reference \in ReferenceDbs :
        distinct_ids(log_rows) => distinct_ids(rows_after_import(csv, reference))

\* the rows import_csv is about to number and append: the file's rows under
\* the canonical columns, species filled in from the reference table
rows_to_import(csv, reference) ==
    autofill_species(import_columns(read_csv_fillna(csv)),
                     load_reference_db(reference)).rows

\* the row carries no Record ID
id_less(r) == strip(astype_str(r[iRecordID])) = <<>>

\* how many of the first i rows carry no Record ID and have the Genus and
\* Species of row i
rank_among_id_less(rows, i) ==
    Cardinality({ j \in 1..i : /\ id_less(rows[j])
                               /\ rows[j][iGenus] = rows[i][iGenus]
                               /\ rows[j][iSpecies] = rows[i][iSpecies] })

\* a row as it is read back after it was written to the log file
written_and_read(r) == [k \in 1..Len(r) |-> read_cell(write_cell(r[k]))]

\* slug(genus)_slug(species)_NN
id_text(g, sp, n) ==
    safe_slug(g) \o <<"_">> \o safe_slug(sp) \o <<"_">> \o format_02d(n)

\* the log rows are kept and one row is appended for each row of the file,
\* those that carry a Record ID with that id
appended_after_log(pre, after) ==
    /\ Len(after) = Len(log_rows) + Len(pre)
    /\ \A i \in 1..Len(log_rows) : after[i] = log_rows[i]
    /\ \A i \in 1..Len(pre) :
           ~id_less(pre[i]) => after[Len(log_rows) + i] = written_and_read(pre[i])

csv_cell(csv, i, k) == read_csv_fillna(csv).rows[i][k]

\* C13: when the header of a column of the imported file is a variant of a
\* known alias of a log column, the values of that column are found under
\* the canonical column of the appended rows
C13_ImportNormalizesHeaders ==
    \A csv \in ImportFiles : \A reference \in ReferenceDbs :
        csv.exists =>
            LET after == rows_after_import(csv, reference) IN
            \A k \in 1..Len(csv.columns) :
                LET c == normalize_header(csv.columns[k]) IN
                (header_key(csv.columns[k]) \in DOMAIN HEADER_ALIASES
                    /\ c \in Range(LOG_COLUMNS)) =>
                    \A i \in 1..Len(csv.rows) :
                        strip(csv_cell(csv, i, k)) # <<>> =>
                            after[Len(log_rows) + i][col_index(LOG_COLUMNS, c)]
                                = csv_cell(csv, i, k)

\* the rule of the spec: true exactly for 'true', '1' and 'yes', in any case
is_true(c) ==
    \E t \in { <<"t","r","u","e">>, <<"1">>, <<"y","e","s">> } : lower(astype_str(c)) = t

\* C14: filtered_df, the row tags, the edit dialog and compute_audit coerce
\* every boolean cell of the log by the rule, and import_csv coerces every
\* boolean cell of the imported file by the same rule
C14_OneBooleanRule ==
    /\ \A i \in 1..Len(log_rows) : \A c \in BOOL_COLUMNS :
           LET x == log_rows[i][col_index(LOG_COLUMNS, c)] IN
           /\ filtered_isin(x) = is_true(x)
           /\ row_as_bool(x) = is_true(x)
           /\ as_bool(astype_str(x)) = is_true(x)
           /\ audit_isin(x) = is_true(x)
    /\ \A csv \in ImportFiles : \A reference \in ReferenceDbs :
           csv.exists =>
               \A k \in 1..Len(csv.columns) :
                   csv.columns[k] \in BOOL_COLUMNS =>
                       \A i \in 1..Len(csv.rows) :
                           rows_to_import(csv, reference)[i][col_index(LOG_COLUMNS, csv.columns[k])]
                               = bool_cell(is_true(csv_cell(csv, i, k)))

\* the canonical name of each known alias key
canonical_name(key) ==
    CASE key = <<"g","e","n","u","s">> -> Genus
      [] key = <<"s","p","e","c","i","e","s">> -> Species
      [] key = <<"c","o","m","m","o","n","n","a","m","e">> -> CommonName
      [] key = <<"t","y","p","e">> -> Type
      [] key = <<"g","r","o","u","p">> -> Group
      [] key = <<"f","a","m","i","l","y">> -> Family
      [] OTHER -> <<>>

\* the header trimmed, lower-cased, its spaces and underscores removed
alias_key(col) ==
    LET t == lower(strip(col)) IN
    SelectSeq(t, LAMBDA ch : ch \notin {" ", "_"})

\* the name the claim gives a header: the canonical name of a known alias,
\* else the trimmed header
normalized_name(col) ==
    IF canonical_name(alias_key(col)) # <<>> THEN canonical_name(alias_key(col))
    ELSE strip(col)

\* C15: _normalize_headers gives every column the canonical name of its key
\* when the key is genus, species, commonname, type, group or family, and
\* its trimmed header otherwise: in the Species tab, for the file it has
\* opened, and in the logger, for the species file it was built with
C15_KnownAliasesRenamed ==
    /\ \A k \in 1..Len(db_file.columns) :
           df_full.columns[k] = normalized_name(db_file.columns[k])
    /\ LET ref == RefFiles[species_db] IN
       \A k \in 1..Len(ref.columns) :
           _normalize_headers(read_any_fillna(ref)).columns[k]
               = normalized_name(ref.columns[k])

\* the frame is the table of the file under the canonical schema: the 15
\* canonical columns in order, a row for each row of the file when it can
\* be read and none when it cannot, each cell the file's cell of that
\* column, or False (boolean columns) or "" when the file lacks the column
canonical_table_of(df, file) ==
    /\ df.columns = LOG_COLUMNS
    /\ Len(df.columns) = 15
    /\ Len(df.rows) = IF file.readable THEN Len(file.rows) ELSE 0
    /\ \A i \in 1..Len(df.rows) :
           /\ Len(df.rows[i]) = 15
           /\ \A k \in 1..15 :
                  LET c == LOG_COLUMNS[k]
                      at == { j \in 1..Len(file.columns) : file.columns[j] = c }
                  IN  IF at # {}
                      THEN \E j \in at : df.rows[i][k] = read_cell(file.rows[i][j])
                      ELSE df.rows[i][k] = IF c \in BOOL_COLUMNS THEN BoolFalse ELSE <<>>

\* C16: read_log_df, the logger's and the Audit tab's, returns exactly the
\* 15 canonical columns in canonical order whatever the file holds: a
\* canonical column the file lacks is added with False (boolean columns) or
\* "", a column that is not canonical is dropped, and a file that cannot be
\* read gives the empty table of the same columns
C16_CanonicalSchema ==
    /\ canonical_table_of(read_log_df(log), log)
    /\ canonical_table_of(audit_read_log_df(log), log)

\* the table was reloaded from a file with a row, an unknown column and
\* canonical columns missing
C16_Witness ==
    /\ last = Outcome("reload_table", "")
    /\ log.readable
    /\ Len(log.rows) >= 1
    /\ T_Extra \in Range(log.columns)
    /\ HasLeaf \in Range(log.columns)
    /\ HasBark \notin Range(log.columns)
    /\ Genus \notin Range(log.columns)
    /\ Len(tree) = Len(log.rows)
    /\ tree[1][col_index(LOG_COLUMNS, HasBark)] = BoolFalse
    /\ tree[1][iRecordID] # NaN

\* the table was reloaded from a file that cannot be read
C16_WitnessUnreadable ==
    /\ last = Outcome("reload_table", "")
    /\ ~log.readable
    /\ tree = <<>>

\* what Auto-Fill would resolve the text to now
resolved(text) == resolve_species(text, alias_to_rec, records)

\* the record's 'genus species (common name)', lower-cased
display_lower(rec) ==
    lower(rec[Genus] \o <<" ">> \o rec[Species] \o <<" ", "(">> \o rec[CommonName] \o <<")">>)

\* the record's display holds every word of the text
holds_every_token(rec, text) ==
    \A tok \in Range(split(lower(strip(text)))) : contains(display_lower(rec), tok)

\* both lookups in the alias map miss the text
misses_map(text) ==
    /\ strip(text) \notin DOMAIN alias_to_rec
    /\ lower(strip(text)) \notin DOMAIN alias_to_rec

\* C17: the trimmed text, when it is a key of the alias map, resolves to the
\* record mapped to it; otherwise the lower-cased trimmed text, when it is
\* a key, resolves to its record; only when both lookups miss is the
\* result that of the token scan, a record holding every word or none
C17_ExactThenLowerThenScan ==
    \A text \in ResolverTexts :
        text # <<>> =>
            LET t == strip(text) IN
            /\ t \in DOMAIN alias_to_rec => resolved(text) = <<alias_to_rec[t]>>
            /\ (t \notin DOMAIN alias_to_rec /\ lower(t) \in DOMAIN alias_to_rec) =>
                   resolved(text) = <<alias_to_rec[lower(t)]>>
            /\ misses_map(text) =>
                   \/ resolved(text) = <<>>
                   \/ /\ resolved(text)[1] \in Range(records)
                      /\ holds_every_token(resolved(text)[1], text)

\* Auto-Fill shows Bur Oak, the second record of the oak file, whose first
\* record (Swamp Bur Oak) holds both words
C17_Witness ==
    /\ species_db = "oaks.csv"
    /\ holds_every_token(records[1], T_BurOak)
    /\ preview[CommonName] = T_BurOak
    /\ preview[Species] = T_macrocarpa

sample_aliases(g, sp, cn) ==
    { g \o <<" ">> \o sp \o <<" ", "(">> \o cn \o <<")">>,
      g \o <<" ">> \o sp, cn, lower(g \o <<" ">> \o sp), lower(cn) }

\* the species file the logger was built with
ref_file == ReferenceFiles[species_db]

\* no file can be read, or the file has no column named genus or none named
\* species (in any spelling of the header)
load_fails ==
    \/ ~ref_file.exists
    \/ \A k \in 1..Len(ref_file.columns) : normalized_name(ref_file.columns[k]) # Genus
    \/ \A k \in 1..Len(ref_file.columns) : normalized_name(ref_file.columns[k]) # Species

\* C19: the alias list and the alias map load_species_aliases returns are
\* never empty, and when no file can be read or the file lacks the Genus or
\* the Species column they hold the aliases of the two sample records
C19_NeverEmptyAliases ==
    LET out == Loaded[species_db]
        sample == sample_aliases(T_Quercus, T_macrocarpa, T_BurOak)
                      \cup sample_aliases(T_Carya, T_cordiformis, T_BitternutHickory)
    IN  /\ DOMAIN out.alias_to_rec # {}
        /\ \A l \in out.aliases : l # <<>>
        /\ load_fails =>
               /\ DOMAIN out.alias_to_rec = sample
               /\ \A l \in out.aliases : Range(l) = sample
               /\ \A a \in sample_aliases(T_Quercus, T_macrocarpa, T_BurOak) :
                      out.alias_to_rec[a][Species] = T_macrocarpa
               /\ \A a \in sample_aliases(T_Carya, T_cordiformis, T_BitternutHickory) :
                      out.alias_to_rec[a][Species] = T_cordiformis

\* the rows of the species file under normalised headers
ref_rows == _normalize_headers(read_any_fillna(ref_file))

\* the rows that have a genus and a species
valid_rows ==
    { i \in 1..Len(ref_rows.rows) :
        /\ strip(cell_or_empty(ref_rows, ref_rows.rows[i], Genus)) # <<>>
        /\ strip(cell_or_empty(ref_rows, ref_rows.rows[i], Species)) # <<>> }

\* the record of a row
row_record(i) ==
    [c \in {Genus, Species, CommonName, Type, Group, Family} |->
        strip(cell_or_empty(ref_rows, ref_rows.rows[i], c))]

\* the aliases of a row
row_aliases(i) ==
    LET rec == row_record(i) IN
    { strip(sample_alias) :
        sample_alias \in sample_aliases(rec[Genus], rec[Species], rec[CommonName]) }
    \ { <<>> }

\* C20: when the species file is loaded, the record list holds the records
\* of the rows that have a genus and a species, in file order, and no
\* other; the keys of the alias map are the aliases of those rows, each
\* mapped to the record of the first row that has it; and the alias list,
\* in whatever order the sort leaves equal keys, holds each alias once, in
\* case-insensitive order
C20_FirstWriterWinsSortedAliases ==
    LET out == Loaded[species_db] IN
    /\ ~load_fails =>
           /\ Len(out.records) = Cardinality(valid_rows)
           /\ \A n \in 1..Len(out.records) :
                  \E i \in valid_rows :
                      /\ Cardinality({ j \in valid_rows : j <= i }) = n
                      /\ out.records[n] = row_record(i)
           /\ DOMAIN out.alias_to_rec = UNION { row_aliases(i) : i \in valid_rows }
           /\ \A a \in DOMAIN out.alias_to_rec :
                  \E i \in valid_rows :
                      /\ a \in row_aliases(i)
                      /\ \A j \in valid_rows : a \in row_aliases(j) => i <= j
                      /\ out.alias_to_rec[a] = row_record(i)
    /\ out.aliases # {}
    /\ \A l \in out.aliases :
           /\ Range(l) = DOMAIN out.alias_to_rec
           /\ \A i, j \in 1..Len(l) :
                  i < j => (l[i] # l[j] /\ ~str_lt(lower(l[j]), lower(l[i])))

\* Auto-Fill on a file with a row without species and two rows that share
\* an alias shows the record of the first of the two
C20_Witness ==
    /\ species_db = "species.csv"
    /\ Cardinality(valid_rows) < Len(ref_rows.rows)
    /\ \E i, j \in valid_rows : i < j /\ row_aliases(i) \cap row_aliases(j) # {}
    /\ preview[Species] = T_rubrum
    /\ preview[CommonName] = T_RedMaple

\* the frame compute_audit is given: the log as the Audit tab reads it
audit_input == audit_read_log_df(log).rows

\* the (Genus, Species, Common Name, Type, Group) tuple of a log row
key_tuple(r) ==
    << r[iGenus], r[iSpecies], r[col_index(LOG_COLUMNS, CommonName)],
       r[col_index(LOG_COLUMNS, Type)], r[col_index(LOG_COLUMNS, Group)] >>

\* the tuples present in the log
key_tuples == { key_tuple(audit_input[i]) : i \in 1..Len(audit_input) }

\* the log rows of one tuple
rows_of(k) == { i \in 1..Len(audit_input) : key_tuple(audit_input[i]) = k }

\* the number of rows of the tuple whose flag is true by the rule
true_in(k, col) ==
    Cardinality({ i \in rows_of(k) : is_true(audit_input[i][col_index(LOG_COLUMNS, col)]) })

\* the tuple an audit row stands for
row_tuple(a) == << a.Genus, a.Species, a.CommonName, a.Type, a.Group >>

\* the categories of an audit row whose count is 0, in the fixed order
zero_categories(a) ==
    LET cats == << [name |-> T_Leaf, ct |-> a.Leaf], [name |-> T_Bark, ct |-> a.Bark],
                   [name |-> T_Tree, ct |-> a.Tree], [name |-> T_Other, ct |-> a.Other] >>
        zero == SelectSeq(cats, LAMBDA c : c.ct = 0)
    IN  [k \in 1..Len(zero) |-> zero[k].name]

\* C21: compute_audit returns exactly one row per distinct (Genus, Species,
\* Common Name, Type, Group) tuple of the log, empty-string and missing key
\* values included; Entries is the number of log rows of the tuple, Leaf,
\* Bark, Tree and Other are the numbers of those rows whose flag coerces to
\* true, and Missing lists, in the order Leaf, Bark, Tree, Other, exactly
\* the categories whose count is 0
C21_OneRowPerTuple ==
    LET a == compute_audit(audit_read_log_df(log)).rows IN
    /\ Len(a) = Cardinality(key_tuples)
    /\ \A k \in key_tuples :
         \E j \in 1..Len(a) :
            /\ row_tuple(a[j]) = k
            /\ a[j].Entries = Cardinality(rows_of(k))
            /\ a[j].Leaf = true_in(k, HasLeaf)
            /\ a[j].Bark = true_in(k, HasBark)
            /\ a[j].Tree = true_in(k, HasTree)
            /\ a[j].Other = true_in(k, HasOther)
            /\ a[j].Missing = join(<<",", " ">>, zero_categories(a[j]))

\* the Audit tab has rendered a log of three rows in two groups whose
\* Species .. Group keys are empty strings: one group of two rows, one with
\* a leaf, and one group of one row without
C21_Witness ==
    /\ log.columns = ShortHeader
    /\ Len(log.rows) = 3
    /\ Len(audit.rows) = 2
    /\ \E j \in 1..2 :
          /\ audit.rows[j].Entries = 2
          /\ audit.rows[j].Species = <<>>
          /\ audit.rows[j].Leaf = 1
          /\ audit.rows[j].Missing = T_Bark \o <<",", " ">> \o T_Tree \o <<",", " ">> \o T_Other
          /\ audit.rows[3 - j].Entries = 1
          /\ audit.rows[3 - j].Leaf = 0
          /\ audit.rows[3 - j].Missing =
                T_Leaf \o <<",", " ">> \o T_Bark \o <<",", " ">> \o T_Tree \o <<",", " ">> \o T_Other

\* the cell of a log row under a column
log_cell(i, c) == log_rows[i][col_index(LOG_COLUMNS, c)]

\* the log row passes the Type (Group) filter: the box is at All or the
\* cell's text is the selected value
passes_select(i, c, sel) == sel = T_All \/ astype_str(log_cell(i, c)) = sel

\* the log row passes the status filter
passes_status(i) ==
    /\ filters.status_cb = T_Scanned => is_true(log_cell(i, Scanned))
    /\ filters.status_cb = T_Unscanned => ~is_true(log_cell(i, Scanned))
    /\ filters.status_cb = T_Archived => is_true(log_cell(i, Archived))
    /\ filters.status_cb = T_Unarchived => ~is_true(log_cell(i, Archived))

\* the log row passes the only-missing filter: the box is clear or not all
\* four coverage flags are true
passes_only_missing(i) ==
    filters.only_missing =>
        \E c \in { HasLeaf, HasBark, HasTree, HasOther } : ~is_true(log_cell(i, c))

\* the search term: the text of the search box, stripped and lower-cased
search_term == lower(strip(filters.search_var))

\* the log row passes the search filter: there is no term, or the text of
\* one of the five searched cells holds it, case aside
passes_search(i) ==
    search_term = <<>> \/
    \E c \in { Genus, Species, CommonName, RecordID, Notes } :
        contains(lower(astype_str(log_cell(i, c))), search_term)

\* the log rows that pass every filter
passing ==
    { i \in 1..Len(log_rows) :
        /\ passes_select(i, Type, filters.type_cb)
        /\ passes_select(i, Group, filters.group_cb)
        /\ passes_status(i)
        /\ passes_only_missing(i)
        /\ passes_search(i) }

\* the k-th of them in log order
kth_passing(k) == CHOOSE i \in passing : Cardinality({ j \in passing : j <= i }) = k

\* the table row shows the log row: the same cells, the flags as booleans
shows(r, i) ==
    \A c \in Range(LOG_COLUMNS) :
        r[col_index(LOG_COLUMNS, c)] =
            IF c \in BOOL_COLUMNS THEN bool_cell(is_true(log_cell(i, c))) ELSE log_cell(i, c)

\* C22: the table shows exactly the log rows that pass the Type filter, the
\* Group filter, the status filter, the only-missing filter and the search
\* filter, all five at once, in log order
C22_ViewIsAndOfFilters ==
    /\ Len(tree) = Cardinality(passing)
    /\ \A k \in 1..Len(tree) : shows(tree[k], kth_passing(k))

\* the log holds an unscanned row and then a scanned row, both of Type x;
\* with Type at x and status at Scanned the table shows the second row only
C22_Witness ==
    /\ filters.type_cb = T_x
    /\ filters.status_cb = T_Scanned
    /\ Len(log_rows) = 2
    /\ astype_str(log_cell(1, Type)) = T_x
    /\ ~is_true(log_cell(1, Scanned))
    /\ astype_str(log_cell(2, Type)) = T_x
    /\ is_true(log_cell(2, Scanned))
    /\ last = Outcome("reload_table", "")
    /\ Len(tree) = 1
    /\ shows(tree[1], 2)

\* the search finds the term in a cell of the row that is not missing
found_in_present_cell(r) ==
    \E c \in { Genus, Species, CommonName, RecordID, Notes } :
        LET x == r[col_index(LOG_COLUMNS, c)] IN
        /\ x # NaN
        /\ x # <<>>
        /\ contains(lower(astype_str(x)), search_term)

\* C23: search treats a missing cell as the empty string: under a non-empty
\* search term every row the table shows holds the term in a searched cell
\* that is present, so a row whose searched cells are all missing or empty
\* is never shown and a missing cell never makes a row match
C23_MissingCellNeverMatches ==
    search_term # <<>> =>
        \A k \in 1..Len(tree) : found_in_present_cell(tree[k])

\* the (Genus, Species) pair a log row is filed under
species_of(r) == <<astype_str(r[iGenus]), astype_str(r[iSpecies])>>

\* C24: a Record ID is never reused across species: an id that a record of
\* one (Genus, Species) holds is not held, after the next save_new,
\* save_edit or delete_selected, by a record of a different (Genus, Species)
C24_NeverReusedAcrossSpecies ==
    [][\A i \in 1..Len(log_rows) : \A j \in 1..Len(log_rows') :
          record_id_of(log_rows[i]) = record_id_of(log_rows'[j]) =>
              species_of(log_rows[i]) = species_of(log_rows'[j])]_vars

distinct_slugs ==
    \A p, q \in SpeciesPairs :
        p # q => <<safe_slug(p[1]), safe_slug(p[2])>> # <<safe_slug(q[1]), safe_slug(q[2])>>

\* C26: when every two distinct reference species have distinct (genus
\* slug, species slug), then in every state that save_new, save_edit and
\* delete_selected reach from the empty log, a save_new for a species that
\* resolves does not fail with the Duplicate error, also not after a record
\* of that species was edited to another Genus or Species and kept its id
C26_NoCollisionWithDistinctSlugs ==
    distinct_slugs =>
        \A form \in NewForms : save_new_now(form).msg # "Duplicate"

\* the empty text and texts of whitespace only
BlankTexts == { <<>>, <<" ">>, <<" ", "\t", " ">> }

\* C27: resolve_species returns none for the empty text and for every text
\* of whitespace only, whatever the alias map and the record list hold, so
\* save_new with a blank species box never writes a record
C27_BlankResolvesToNone ==
    \A text \in BlankTexts :
        /\ resolve_species(text, alias_to_rec, records) = <<>>
        /\ \A form \in NewForms :
              ~save_new_now([form EXCEPT !.species_entry = text]).written

T_oak_bur == <<"o","a","k"," ","b","u","r">>

\* C28: when load_species_aliases falls back to the sample set, the record
\* list it returns holds both sample records, so the token scan of
\* resolve_species works on them: 'oak bur' resolves to the Bur Oak record,
\* the record 'Bur Oak' resolves to
C28_FallbackRecordsListed ==
    load_fails =>
        /\ \E i \in 1..Len(records) : records[i][Species] = T_macrocarpa
        /\ \E i \in 1..Len(records) : records[i][Species] = T_cordiformis
        /\ resolve_species(T_oak_bur, alias_to_rec, records)
              = resolve_species(T_BurOak, alias_to_rec, records)
        /\ resolve_species(T_oak_bur, alias_to_rec, records) # <<>>

\* the table a load of the file on disk would give
table_on_disk == load_from_path_df(db_file, EmptyFrame)

\* every row of the in-memory table is a row of the file on disk
rows_on_disk ==
    \A i \in 1..Len(df_full.rows) :
        \E j \in 1..Len(table_on_disk.rows) :
            /\ table_on_disk.columns = df_full.columns
            /\ table_on_disk.rows[j] = df_full.rows[i]

\* C29: when the write of add_species fails, the failure is reported and
\* df_full is what it was before the call, so the in-memory table never
\* holds a row that is not on disk; with an empty genus or species, or with
\* no file loaded, add_species changes neither df_full nor the file
C29_FailedWriteLeavesTable ==
    /\ rows_on_disk
    /\ \A genus \in GenusInputs, species \in SpeciesInputs :
          LET failed == add_species_outcome(df_full, db_file, genus, species,
                                            T_RedMaple, <<>>, FALSE)
              done == add_species_outcome(df_full, db_file, genus, species,
                                          T_RedMaple, <<>>, TRUE)
          IN  /\ failed.file = db_file
              /\ failed.df_full = df_full
              /\ failed.msg # ""
              /\ (~db_file.exists \/ strip(genus) = <<>> \/ strip(species) = <<>>) =>
                     (done.df_full = df_full /\ done.file = db_file)

RECURSIVE sum_entries(_)
\* the sum of Entries over a list of audit rows
sum_entries(rows) ==
    IF rows = <<>> THEN 0 ELSE Head(rows).Entries + sum_entries(Tail(rows))

\* C30: the audit rows partition the log rows: the Entries of all audit
\* rows add up to the number of log rows, and in every audit row each of
\* Leaf, Bark, Tree, Other, Scanned and Archived lies between 0 and Entries
C30_AuditPartitionsLog ==
    LET a == compute_audit(audit_read_log_df(log)).rows IN
    /\ sum_entries(a) = Len(audit_input)
    /\ \A j \in 1..Len(a) :
          \A ct \in { a[j].Leaf, a[j].Bark, a[j].Tree, a[j].Other,
                      a[j].Scanned, a[j].Archived } :
              0 <= ct /\ ct <= a[j].Entries

\* the Audit tab has rendered a log of three rows as two audit rows, one
\* of two entries of which one only has a leaf, and one of one entry
C30_Witness ==
    /\ Len(log.rows) = 3
    /\ log.columns = LOG_COLUMNS
    /\ Len(audit.rows) = 2
    /\ sum_entries(audit.rows) = 3
    /\ \E j \in 1..2 :
          /\ audit.rows[j].Entries = 2
          /\ audit.rows[j].Leaf = 1
          /\ audit.rows[j].Scanned = 2

====
